---- MODULE Spec2Model ----
(***************************************************************************)
(* NeonShell SSH connection engine (apps/desktop/src-tauri/src/ssh).       *)
(*                                                                         *)
(* One SessionHandle, the worker thread spawned by start_connection        *)
(* (connect_blocking followed by run_io_loop), and the caller threads      *)
(* that use the handle: send_data, resize_pty, set_hostkey_decision and    *)
(* disconnect.  The worker takes one step per lock acquisition or library  *)
(* call, so every interleaving with the callers is explored.               *)
(*                                                                         *)
(* Byte strings (Vec<u8>) are kept as runs: a run <<id, lo, hi>> stands    *)
(* for the bytes lo .. hi-1 of the byte source id.  Every byte of every    *)
(* source is distinct, so order, loss and duplication are all visible,     *)
(* and the program's real sizes (256 KiB, 8 KiB, 32 KiB) can be kept.      *)
(***************************************************************************)
EXTENDS Integers, Sequences, FiniteSets, TLC

(***************************************************************************)
(* Program constants                                                       *)
(***************************************************************************)
MAX_PENDING_BYTES == 262144

WRITE_CHUNK_BYTES == 8192

READ_BUF_BYTES == 32768

QUEUE_CAPACITY == 1024

DRAIN_BATCH == 32

MAX_CONSECUTIVE_ERRORS == 5
\* sanitize_error_message: msg.len() > 200, &msg[..200]
SANITIZE_BYTES == 200

(***************************************************************************)
(* Bounds of the model                                                     *)
(***************************************************************************)
\* Spec and SpecConnect: calls made on the handle (send_data, resize_pty,
\* set_hostkey_decision, disconnect), and results of channel reads and writes
\* other than "nothing to read" and "all written".
MaxCalls == 3

MaxChannelEvents == 1

\* SpecOutbound: send_data calls, and writes that are partial or fail.
OutMaxSends == 3

OutMaxWriteFaults == 2

\* SpecInbound: reads that return data, and reads that fail.
InMaxReads == 3

InMaxReadErrors == 6

\* SpecSanitize: characters in one run of an error text.
MsgMaxChars == 201

\* SpecAgent: identities the agent holds.
AgentMaxIdentities == 3

\* SpecRegistry: create_session calls, and the values Uuid::new_v4 can take.
RegMaxCreates == 4

RegMaxIds == 3

\* SpecTrust: sessions created one after the other.
TrustMaxSessions == 3

\* SpecManager: create_session calls after the first, and calls of
\* send_data, resize_pty and set_hostkey_decision that reach a handle.
MgrMaxCreates == 1

MgrMaxCalls == 1

\* SpecFull: send_data calls and disconnect calls.
FullMaxSends == 1030

FullMaxDisconnects == 2

(***************************************************************************)
(* Byte strings as sequences of runs                                       *)
(***************************************************************************)
RECURSIVE BLen(_)
BLen(b) ==
    IF b = <<>> THEN 0 ELSE (b[1][3] - b[1][2]) + BLen(Tail(b))

\* The bytes 0 .. len-1 of source id.
Bytes(id, len) ==
    IF len = 0 THEN <<>> ELSE << <<id, 0, len>> >>

\* Vec::extend_from_slice: a followed by b.
BCat(a, b) ==
    IF a = <<>> THEN b
    ELSE IF b = <<>> THEN a
    ELSE LET l == a[Len(a)]
             f == b[1]
         IN  IF l[1] = f[1] /\ l[3] = f[2]
             THEN SubSeq(a, 1, Len(a) - 1) \o << <<l[1], l[2], f[3]>> >> \o Tail(b)
             ELSE a \o b

\* The slice b[..n].
RECURSIVE BTake(_, _)
BTake(b, n) ==
    IF n = 0 \/ b = <<>> THEN <<>>
    ELSE LET r == b[1]
             k == r[3] - r[2]
         IN  IF k <= n
             THEN BCat(<<r>>, BTake(Tail(b), n - k))
             ELSE << <<r[1], r[2], r[2] + n>> >>

\* Vec::drain(..n): what is left of b without its first n bytes.
RECURSIVE BDrop(_, _)
BDrop(b, n) ==
    IF n = 0 \/ b = <<>> THEN b
    ELSE LET r == b[1]
             k == r[3] - r[2]
         IN  IF k <= n
             THEN BDrop(Tail(b), n - k)
             ELSE << <<r[1], r[2] + n, r[3]>> >> \o Tail(b)

Min(a, b) ==
    IF a < b THEN a ELSE b

(***************************************************************************)
(* Text (String): a sequence of runs <<width, n>>, each standing for n     *)
(* characters whose UTF-8 encoding takes width bytes.  Lengths and slice   *)
(* indexes of a String count bytes.                                        *)
(***************************************************************************)
\* The runs of a text with empty runs dropped and equal neighbours merged.
RECURSIVE Norm(_)
Norm(t) ==
    IF t = <<>> THEN <<>>
    ELSE LET rest == Norm(Tail(t))
         IN  IF t[1][2] = 0 THEN rest
             ELSE IF rest # <<>> /\ rest[1][1] = t[1][1]
                  THEN <<<<t[1][1], t[1][2] + rest[1][2]>>>> \o Tail(rest)
                  ELSE <<t[1]>> \o rest

\* str::len: the length in bytes.
RECURSIVE StrLen(_)
StrLen(t) ==
    IF t = <<>> THEN 0 ELSE t[1][1] * t[1][2] + StrLen(Tail(t))

\* str::is_char_boundary: byte index n is the start of a character or the end
\* of the text.
RECURSIVE IsCharBoundary(_, _)
IsCharBoundary(t, n) ==
    IF n = 0 THEN TRUE
    ELSE IF t = <<>> THEN FALSE
    ELSE LET bytes == t[1][1] * t[1][2]
         IN  IF n >= bytes THEN IsCharBoundary(Tail(t), n - bytes)
             ELSE n % t[1][1] = 0

\* &t[..n] for a byte index n that is a character boundary.
RECURSIVE StrSlice(_, _)
StrSlice(t, n) ==
    IF n = 0 \/ t = <<>> THEN <<>>
    ELSE LET bytes == t[1][1] * t[1][2]
         IN  IF n >= bytes THEN <<t[1]>> \o StrSlice(Tail(t), n - bytes)
             ELSE <<<<t[1][1], n \div t[1][1]>>>>

\* sanitize_error_message: what the call does ("panic" when the slice index
\* is not a character boundary, else "ok") and the String returned; <<1, 3>>
\* is the text "...".
sanitize_error_message(msg) ==
    IF StrLen(msg) > SANITIZE_BYTES
    THEN IF IsCharBoundary(msg, SANITIZE_BYTES)
         THEN [kind |-> "ok", text |-> Norm(StrSlice(msg, SANITIZE_BYTES) \o <<<<1, 3>>>>)]
         ELSE [kind |-> "panic", text |-> <<>>]
    ELSE [kind |-> "ok", text |-> Norm(msg)]

(***************************************************************************)
(* Host-key fingerprints                                                   *)
(***************************************************************************)
\* The raw key bytes the server presents for each host key of the model.
KeyBytes(key) ==
    CASE key = "keyA" -> <<0, 0, 0, 11, 115, 115, 104, 45, 101, 100, 50, 53, 53, 49, 57, 65>>
      [] key = "keyB" -> <<0, 0, 0, 7, 115, 115, 104, 45, 114, 115, 97, 66, 255>>

\* One byte of the digest: the hasher is not computed bit for bit; it is a
\* fixed function of all the bytes fed to it.
RECURSIVE Sha256Byte(_, _)
Sha256Byte(bytes, i) ==
    IF bytes = <<>> THEN (37 * i + 11) % 256
    ELSE (bytes[1] + 31 * Sha256Byte(Tail(bytes), i) + i) % 256

\* Sha256::new, update(key), finalize: a digest of 32 bytes.
Sha256(bytes) ==
    [i \in 1..32 |-> Sha256Byte(bytes, i)]

\* '=' in a base64 text, whose other characters are kept as their 6-bit values.
PAD == 64

\* base64 STANDARD encode: three bytes give four characters; a rest of one
\* or two bytes gives two or three characters and padding up to four.
RECURSIVE Base64Encode(_)
Base64Encode(bytes) ==
    CASE Len(bytes) = 0 -> <<>>
      [] Len(bytes) = 1 ->
             LET n == bytes[1] * 65536
             IN  <<n \div 262144, (n \div 4096) % 64, PAD, PAD>>
      [] Len(bytes) = 2 ->
             LET n == bytes[1] * 65536 + bytes[2] * 256
             IN  <<n \div 262144, (n \div 4096) % 64, (n \div 64) % 64, PAD>>
      [] Len(bytes) >= 3 ->
             LET n == bytes[1] * 65536 + bytes[2] * 256 + bytes[3]
             IN  <<n \div 262144, (n \div 4096) % 64, (n \div 64) % 64, n % 64>>
                 \o Base64Encode(SubSeq(bytes, 4, Len(bytes)))

\* compute_sha256_fingerprint with the padding left in place.
compute_sha256_fingerprint_padded(key) ==
    [scheme |-> "SHA256:", b64 |-> Base64Encode(Sha256(key))]

\* str::trim_end_matches(c): every trailing c is removed.
RECURSIVE TrimEndMatches(_, _)
TrimEndMatches(text, c) ==
    IF text # <<>> /\ text[Len(text)] = c
    THEN TrimEndMatches(SubSeq(text, 1, Len(text) - 1), c)
    ELSE text

\* compute_sha256_fingerprint: format!("SHA256:{}", b64.trim_end_matches('=')).
compute_sha256_fingerprint(key) ==
    [scheme |-> "SHA256:", b64 |-> TrimEndMatches(Base64Encode(Sha256(key)), PAD)]

(***************************************************************************)
(* State                                                                   *)
(***************************************************************************)
VARIABLES
    state,             \* SessionHandle.state
    write_tx,          \* SessionHandle.write_tx: TRUE when Some(sender)
    connected_at,      \* SessionHandle.connected_at: TRUE when Some(timestamp)
    hostkey_decision,  \* SessionHandle.hostkey_decision: "None" or a decision
    policy,            \* SessionConfig.known_hosts_policy
    known_hosts,       \* keys stored for the host in <config_dir>/known_hosts
    queue,             \* commands in the mpsc channel created by the worker
    rx_alive,          \* the worker still holds the channel's Receiver
    wk,                \* the worker thread: position and locals
    chan,              \* the remote side of the transport and channel
    caller,            \* the caller threads: position of a disconnect in flight, last result
    count,             \* calls made and faults injected so far (bounds the run)
    events,            \* number of notifications emitted, by event name
    auth_method,       \* SessionConfig.auth_method
    key_file,          \* the temporary private-key file of authenticate
    sessions,          \* SessionManager.sessions: identifier -> handle
    issued,            \* history: the identifiers create_session has returned
    attempts           \* history: the connection attempts of earlier handles
vars ==
    <<state, write_tx, connected_at, hostkey_decision, policy, known_hosts,
      queue, rx_alive, wk, chan, caller, count, events,
      auth_method, key_file, sessions, issued, attempts>>

SessionStates ==
    {"Created", "Connecting", "WaitingForHostKey", "Connected", "Disconnected", "Error"}

KnownHostsPolicies ==
    {"Strict", "Ask", "Accept"}

HostKeyDecisions ==
    {"TrustOnce", "TrustAlways", "Reject"}

HostKeys ==
    {"keyA", "keyB"}

EventNames ==
    {"ssh:error", "ssh:connected", "ssh:closed", "ssh:disconnected", "ssh:hostkey_request"}

Emit(ev, name) ==
    [ev EXCEPT ![name] = @ + 1]

\* The worker of a handle before start_connection spawns it.
NewWorker ==
    [ pc |-> "idle",
      second |-> "none",   \* a second thread spawned for the same handle
      err |-> "",
      key |-> "none",
      loaded |-> {},
      check |-> "",
      decision |-> "None",
      drain_i |-> 0,
      pending |-> <<>>,
      consecutive_errors |-> 0,
      read_error_count |-> 0,
      read_buf |-> Bytes(-1, READ_BUF_BYTES),
      auth_result |-> [ok |-> TRUE, has |-> {}],
      \* history of this connection attempt
      surfaced |-> [of |-> <<>>, kind |-> "none", text |-> <<>>],
      prompt |-> [scheme |-> "", b64 |-> <<>>],
      cred |-> [password |-> "", detail |-> ""],
      agent |-> [reach |-> "", ids |-> <<>>, tried |-> 0],
      ladder |-> [tries |-> <<>>, channel |-> 0, opened |-> 0],
      sets |-> <<>>,
      presented |-> "none",
      read_ok |-> TRUE,
      hosts_at_check |-> {},
      persisted |-> FALSE,
      trail |-> <<>>,
      authenticated |-> FALSE,
      auth_calls |-> 0,
      close_seen |-> FALSE,
      err_run |-> 0,
      dropped |-> 0,
      accepted_after_drop |-> FALSE ]

\* The remote side of a handle that has not connected yet.
NewChannel ==
    [ eof |-> FALSE,
      wire |-> <<>>,      \* bytes written to the channel by the worker
      inbound |-> <<>>,   \* bytes the worker has read from the channel
      data |-> <<>>,      \* payloads of the ssh:data events, in order
      pty |-> <<80, 24>> ]

\* SessionHandle::new and the worker before start_connection spawns it.
InitHandle ==
    /\ state = "Created"
    /\ write_tx = FALSE
    /\ connected_at = FALSE
    /\ hostkey_decision = "None"
    /\ queue = <<>>
    /\ rx_alive = FALSE
    /\ wk = NewWorker
    /\ chan = NewChannel
    /\ caller = [ disc |-> "idle", op |-> "", res |-> "",
                  \* history: the decision in the slot was stored while the
                  \* handle was in WaitingForHostKey
                  decided_waiting |-> FALSE,
                  \* a SessionManager::disconnect in flight: position, identifier,
                  \* the handle it got, the disconnect calls made before it
                  mgr |-> "idle", mgr_id |-> 0, mgr_handle |-> 0, mgr_seen |-> 0,
                  \* history: the handles whose SessionManager::disconnect returned Ok
                  mgr_done |-> {},
                  \* an info() in flight: the state it has read; the last snapshot returned
                  info |-> "idle",
                  snap |-> [state |-> "", connected_at |-> FALSE] ]
    /\ count = [ send |-> 0, resize |-> 0, disconnect |-> 0, decision |-> 0,
                 read |-> 0, read_err |-> 0, write_fault |-> 0, poll |-> 0 ]
    /\ events = [n \in EventNames |-> 0]
    /\ key_file = "absent"
    /\ attempts = <<>>

\* SessionManager::new, then the create_session that made the handle: the
\* registry holds the first handle under the first identifier.
InitManager ==
    /\ sessions = [id \in {1} |-> 1]
    /\ issued = <<1>>

(***************************************************************************)
(* The connect sequence: start_connection, connect_blocking                *)
(***************************************************************************)
\* SessionHandle::set_state as done by the worker: the write, remembered in
\* the attempt's history.
WorkerSets(w, s) ==
    [w EXCEPT !.sets = Append(@, s)]

\* SessionManager::connect_session -> SessionHandle::start_connection: spawn the worker.
StartConnection ==
    /\ wk.pc = "idle"
    /\ wk' = [wk EXCEPT !.pc = "spawned"]
    /\ caller' = [caller EXCEPT !.op = "connect_session", !.res = "Ok"]
    /\ UNCHANGED <<state, write_tx, connected_at, hostkey_decision, policy, auth_method, key_file, sessions, issued, attempts, known_hosts,
                   queue, rx_alive, chan, count, events>>

\* connect_session -> start_connection on a handle whose worker was already
\* spawned: neither looks at the state, so a second thread is spawned for
\* the same handle.
StartConnectionAgain ==
    /\ wk.pc # "idle"
    /\ wk.second = "none"
    /\ wk' = [wk EXCEPT !.second = "spawned"]
    /\ caller' = [caller EXCEPT !.op = "connect_session", !.res = "Ok"]
    /\ UNCHANGED <<state, write_tx, connected_at, hostkey_decision, policy, auth_method, key_file, sessions, issued, attempts, known_hosts,
                   queue, rx_alive, chan, count, events>>

\* The second thread's connect_blocking, first statement:
\* set_state(Connecting).  The thread is followed no further.
SecondWorkerBegin ==
    /\ wk.second = "spawned"
    /\ state' = "Connecting"
    /\ wk' = [wk EXCEPT !.second = "tcp"]
    /\ UNCHANGED <<write_tx, connected_at, hostkey_decision, policy, auth_method, key_file, sessions, issued, attempts, known_hosts,
                   queue, rx_alive, chan, caller, count, events>>

\* connect_blocking, first statement: set_state(Connecting).
ConnectBlockingBegin ==
    /\ wk.pc = "spawned"
    /\ state' = "Connecting"
    /\ wk' = [WorkerSets(wk, "Connecting") EXCEPT !.pc = "tcp"]
    /\ UNCHANGED <<write_tx, connected_at, hostkey_decision, policy, auth_method, key_file, sessions, issued, attempts, known_hosts,
                   queue, rx_alive, chan, caller, count, events>>

\* Address parse, TcpStream::connect_timeout, Session::new, handshake.
\* The server presents its host key during the handshake.
TcpAndHandshake(outcome, key) ==
    /\ wk.pc = "tcp"
    /\ wk' = IF outcome = "ok"
             THEN [wk EXCEPT !.pc = "verify", !.key = key, !.presented = key]
             ELSE [wk EXCEPT !.pc = "failed", !.err = outcome]
    /\ UNCHANGED <<state, write_tx, connected_at, hostkey_decision, policy, auth_method, key_file, sessions, issued, attempts, known_hosts,
                   queue, rx_alive, chan, caller, count, events>>

\* KnownHosts::check_port against the entries read from the known_hosts file.
CheckPort(entries, key) ==
    IF key \in entries THEN "Match"
    ELSE IF entries = {} THEN "NotFound"
    ELSE "Mismatch"

\* OnCheckResult that asks about every key, known or not.
OnCheckResultPromptsKnown(check) ==
    CASE check = "Match"    -> [pc |-> "wait_hostkey", err |-> ""]
      [] check = "NotFound" -> [pc |-> "wait_hostkey", err |-> ""]
      [] check = "Mismatch" -> [pc |-> "failed", err |-> "Host key mismatch - possible security risk"]
      [] check = "Failure"  -> [pc |-> "failed", err |-> "Failed to check known hosts"]

\* OnCheckResult that lets the policy decide about an unknown key: Strict
\* refuses it and Accept takes it, both without a prompt.
OnCheckResultByPolicy(check) ==
    CASE check = "Match"    -> [pc |-> "auth", err |-> ""]
      [] check = "NotFound" ->
             CASE policy = "Strict" -> [pc |-> "failed", err |-> "Host key rejected by user"]
               [] policy = "Ask"    -> [pc |-> "wait_hostkey", err |-> ""]
               [] policy = "Accept" -> [pc |-> "auth", err |-> ""]
      [] check = "Mismatch" -> [pc |-> "failed", err |-> "Host key mismatch - possible security risk"]
      [] check = "Failure"  -> [pc |-> "failed", err |-> "Failed to check known hosts"]

\* OnCheckResult with a policy that overrides a changed key: under Accept a
\* Mismatch is let through like a Match.
OnCheckResultAcceptOverrides(check) ==
    CASE check = "Match"    -> [pc |-> "auth", err |-> ""]
      [] check = "NotFound" -> [pc |-> "wait_hostkey", err |-> ""]
      [] check = "Mismatch" ->
             IF policy = "Accept"
             THEN [pc |-> "auth", err |-> ""]
             ELSE [pc |-> "failed", err |-> "Host key mismatch - possible security risk"]
      [] check = "Failure"  -> [pc |-> "failed", err |-> "Failed to check known hosts"]

\* The match on the check result in verify_host_key: where the attempt goes.
\* known_hosts_policy is not consulted.
OnCheckResult(check) ==
    CASE check = "Match"    -> [pc |-> "auth", err |-> ""]
      [] check = "NotFound" -> [pc |-> "wait_hostkey", err |-> ""]
      [] check = "Mismatch" -> [pc |-> "failed", err |-> "Host key mismatch - possible security risk"]
      [] check = "Failure"  -> [pc |-> "failed", err |-> "Failed to check known hosts"]

\* verify_host_key up to the wait for a decision.  lib is what the library
\* calls before the check do: "ok", or the one that fails.  NotFound sets the
\* state to WaitingForHostKey and emits the prompt, a HostKeyInfo with the
\* fingerprint of the key (kept in prompt); Mismatch emits the
\* security warning.  The function's locals (key, the loaded KnownHosts) end
\* when it returns.
VerifyHostKey(lib) ==
    /\ wk.pc = "verify"
    /\ IF lib \in {"no_host_key", "known_hosts_failed"}
       THEN /\ wk' = [wk EXCEPT !.pc = "failed", !.err = lib, !.key = "none"]
            /\ UNCHANGED <<state, events>>
       ELSE LET loaded == IF lib = "read_file_failed" THEN {} ELSE known_hosts
                check  == IF lib = "check_failure" THEN "Failure"
                          ELSE CheckPort(loaded, wk.key)
                to     == OnCheckResult(check)
                w      == [wk EXCEPT !.pc = to.pc, !.err = to.err, !.check = check,
                                     !.read_ok = (lib # "read_file_failed"),
                                     !.hosts_at_check = known_hosts,
                                     !.trail = IF to.pc = "auth" THEN Append(@, "verify") ELSE @]
            IN  IF to.pc = "wait_hostkey"
                THEN /\ state' = "WaitingForHostKey"
                     /\ events' = Emit(events, "ssh:hostkey_request")
                     /\ wk' = [WorkerSets(w, "WaitingForHostKey") EXCEPT
                                   !.loaded = loaded,
                                   !.prompt = compute_sha256_fingerprint(KeyBytes(wk.key))]
                ELSE /\ wk' = [w EXCEPT !.key = "none"]
                     /\ events' = IF check = "Mismatch" THEN Emit(events, "ssh:error") ELSE events
                     /\ UNCHANGED state
    /\ UNCHANGED <<write_tx, connected_at, hostkey_decision, policy, auth_method, key_file, sessions, issued, attempts, known_hosts,
                   queue, rx_alive, chan, caller, count>>

\* wait_for_hostkey_decision, one poll: get_hostkey_decision, else the
\* timeout test (timed_out: more than 60 s have elapsed), else sleep.
WaitForHostkeyDecision(timed_out) ==
    /\ wk.pc = "wait_hostkey"
    /\ IF hostkey_decision # "None"
       THEN wk' = [wk EXCEPT !.pc = "clear_decision", !.decision = hostkey_decision]
       ELSE /\ timed_out
            /\ wk' = [wk EXCEPT !.pc = "failed", !.key = "none", !.loaded = {},
                                !.err = "Host key verification timed out"]
    /\ UNCHANGED <<state, write_tx, connected_at, hostkey_decision, policy, auth_method, key_file, sessions, issued, attempts, known_hosts,
                   queue, rx_alive, chan, caller, count, events>>

\* ClearHostkeyDecision that stores the key for TrustOnce as for TrustAlways.
ClearHostkeyDecisionAlwaysPersists ==
    /\ wk.pc = "clear_decision"
    /\ hostkey_decision' = "None"
    /\ caller' = [caller EXCEPT !.decided_waiting = FALSE]
    /\ wk' = IF wk.decision = "Reject"
             THEN [wk EXCEPT !.pc = "failed", !.key = "none", !.loaded = {},
                             !.err = "Host key rejected by user"]
             ELSE [wk EXCEPT !.pc = "persist"]
    /\ UNCHANGED <<state, write_tx, connected_at, policy, auth_method, key_file, sessions, issued, attempts, known_hosts,
                   queue, rx_alive, chan, count, events>>

\* ClearHostkeyDecision that lets a rejected key through like TrustOnce.
ClearHostkeyDecisionRejectProceeds ==
    /\ wk.pc = "clear_decision"
    /\ hostkey_decision' = "None"
    /\ caller' = [caller EXCEPT !.decided_waiting = FALSE]
    /\ wk' = IF wk.decision = "TrustAlways"
             THEN [wk EXCEPT !.pc = "persist"]
             ELSE [wk EXCEPT !.pc = "auth", !.key = "none", !.loaded = {},
                             !.trail = Append(@, "verify")]
    /\ UNCHANGED <<state, write_tx, connected_at, policy, auth_method, key_file, sessions, issued, attempts, known_hosts,
                   queue, rx_alive, chan, count, events>>

\* clear_hostkey_decision, the return of the decision read, and the match on it.
ClearHostkeyDecision ==
    /\ wk.pc = "clear_decision"
    /\ hostkey_decision' = "None"
    /\ caller' = [caller EXCEPT !.decided_waiting = FALSE]
    /\ wk' = CASE wk.decision = "TrustOnce"   ->
                      [wk EXCEPT !.pc = "auth", !.key = "none", !.loaded = {},
                                 !.trail = Append(@, "verify")]
               [] wk.decision = "TrustAlways" ->
                      [wk EXCEPT !.pc = "persist"]
               [] wk.decision = "Reject"      ->
                      [wk EXCEPT !.pc = "failed", !.key = "none", !.loaded = {},
                                 !.err = "Host key rejected by user"]
    /\ UNCHANGED <<state, write_tx, connected_at, policy, auth_method, key_file, sessions, issued, attempts, known_hosts,
                   queue, rx_alive, chan, count, events>>

\* PersistKnownHost that reports success without the key reaching the file.
PersistKnownHostForgets(outcome) ==
    /\ wk.pc = "persist"
    /\ IF outcome = "ok"
       THEN wk' = [wk EXCEPT !.pc = "auth", !.key = "none", !.loaded = {},
                             !.persisted = TRUE, !.trail = Append(@, "verify")]
       ELSE wk' = [wk EXCEPT !.pc = "failed", !.key = "none", !.loaded = {}, !.err = outcome]
    /\ UNCHANGED <<state, write_tx, connected_at, hostkey_decision, policy, auth_method, key_file, sessions, issued, attempts, known_hosts,
                   queue, rx_alive, chan, caller, count, events>>

\* TrustAlways: known_hosts.add, create_dir_all, write_file.
PersistKnownHost(outcome) ==
    /\ wk.pc = "persist"
    /\ IF outcome = "ok"
       THEN /\ known_hosts' = wk.loaded \cup {wk.key}
            /\ wk' = [wk EXCEPT !.pc = "auth", !.key = "none", !.loaded = {},
                                !.persisted = TRUE, !.trail = Append(@, "verify")]
       ELSE /\ wk' = [wk EXCEPT !.pc = "failed", !.key = "none", !.loaded = {}, !.err = outcome]
            /\ UNCHANGED known_hosts
    /\ UNCHANGED <<state, write_tx, connected_at, hostkey_decision, policy, auth_method, key_file, sessions, issued, attempts,
                   queue, rx_alive, chan, caller, count, events>>

\* AuthResult that takes the strategy's word for it: no authenticated() check.
AuthResultTrustsStrategy(strategy, authenticated) ==
    strategy

\* What authenticate returns: the strategy's own error if it fails; else
\* the generic error unless ssh_session.authenticated(); else Ok.
AuthResult(strategy, authenticated) ==
    IF strategy # "ok" THEN strategy
    ELSE IF ~authenticated THEN "Authentication failed"
    ELSE "ok"

\* authenticate with a method other than Key: the strategy's library calls
\* (strategy: "ok" or the Auth error the strategy maps its failure to) and
\* the authenticated() check on the transport.
Authenticate(strategy, authenticated) ==
    /\ wk.pc = "auth"
    /\ auth_method # "Key"
    /\ LET res == AuthResult(strategy, authenticated)
           w   == [wk EXCEPT !.auth_calls = @ + 1, !.authenticated = authenticated]
       IN  wk' = IF res = "ok"
                 THEN [w EXCEPT !.pc = "open_channel", !.trail = Append(@, "auth")]
                 ELSE [w EXCEPT !.pc = "failed", !.err = res]
    /\ UNCHANGED <<state, write_tx, connected_at, hostkey_decision, policy, auth_method, key_file, sessions, issued, attempts, known_hosts,
                   queue, rx_alive, chan, caller, count, events>>

\* PasswordStrategy that passes the library's error text on.
PasswordStrategyEchoesDetail(password, lib) ==
    IF password = "none" THEN "Password required"
    ELSE IF lib # "ok" THEN lib
    ELSE "ok"

\* The Password strategy: password.ok_or_else(..)?, then userauth_password
\* with map_err(|_| ..).  password is "none" for None; lib is "ok" or the
\* text of the library's error.
PasswordStrategy(password, lib) ==
    IF password = "none" THEN "Password required"
    ELSE IF lib # "ok" THEN "Password authentication failed"
    ELSE "ok"

\* authenticate with the Password method, and the authenticated() check.
AuthenticatePassword(password, lib, authenticated) ==
    /\ wk.pc = "auth"
    /\ auth_method = "Password"
    /\ LET res == AuthResult(PasswordStrategy(password, lib), authenticated)
           w   == [wk EXCEPT !.auth_calls = @ + 1, !.authenticated = authenticated,
                             !.cred = [password |-> password, detail |-> lib]]
       IN  wk' = IF res = "ok"
                 THEN [w EXCEPT !.pc = "open_channel", !.trail = Append(@, "auth")]
                 ELSE [w EXCEPT !.pc = "failed", !.err = res]
    /\ UNCHANGED <<state, write_tx, connected_at, hostkey_decision, policy, auth_method, key_file, sessions, issued, attempts, known_hosts,
                   queue, rx_alive, chan, caller, count, events>>

\* TryIdentities that goes through the whole list, whatever is accepted.
RECURSIVE TryIdentitiesAll(_, _)
TryIdentitiesAll(ids, i) ==
    IF i > Len(ids) THEN [success |-> FALSE, tried |-> Len(ids)]
    ELSE LET rest == TryIdentitiesAll(ids, i + 1)
         IN  [success |-> ids[i] \/ rest.success, tried |-> Len(ids)]

\* for identity in identities { if agent.userauth(..).is_ok() { auth_success
\* = true; break } }, from the i-th identity on.  ids[i] tells whether the
\* server accepts the i-th identity; tried is the number of userauth calls.
RECURSIVE TryIdentities(_, _)
TryIdentities(ids, i) ==
    IF i > Len(ids) THEN [success |-> FALSE, tried |-> Len(ids)]
    ELSE IF ids[i] THEN [success |-> TRUE, tried |-> i]
    ELSE TryIdentities(ids, i + 1)

\* The Agent strategy.  reach is "ok", or the call that fails on the way to
\* the identities: agent(), connect(), list_identities(), or identities()
\* (whose error is turned into an empty list by unwrap_or_default).
AgentStrategy(reach, ids) ==
    CASE reach = "agent_failed"      -> "SSH agent not available. Make sure ssh-agent is running."
      [] reach = "connect_failed"    -> "Failed to connect to SSH agent. Is it running?"
      [] reach = "list_failed"       -> "Failed to list SSH agent identities"
      [] reach = "identities_failed" -> "No identities found in SSH agent. Add keys with ssh-add."
      [] reach = "ok" ->
             IF ids = <<>> THEN "No identities found in SSH agent. Add keys with ssh-add."
             ELSE IF TryIdentities(ids, 1).success THEN "ok"
             ELSE "SSH agent authentication failed. No matching key accepted."

\* authenticate with the Agent method, and the authenticated() check.
AuthenticateAgent(reach, ids, authenticated) ==
    /\ wk.pc = "auth"
    /\ auth_method = "Agent"
    /\ LET res == AuthResult(AgentStrategy(reach, ids), authenticated)
           w   == [wk EXCEPT !.auth_calls = @ + 1, !.authenticated = authenticated,
                             !.agent = [reach |-> reach, ids |-> ids,
                                        tried |-> IF reach = "ok"
                                                  THEN TryIdentities(ids, 1).tried ELSE 0]]
       IN  wk' = IF res = "ok"
                 THEN [w EXCEPT !.pc = "open_channel", !.trail = Append(@, "auth")]
                 ELSE [w EXCEPT !.pc = "failed", !.err = res]
    /\ UNCHANGED <<state, write_tx, connected_at, hostkey_decision, policy, auth_method, key_file, sessions, issued, attempts, known_hosts,
                   queue, rx_alive, chan, caller, count, events>>

\* authenticate with the Key method, first part: the private key must have
\* been supplied; std::fs::write creates the temporary file and writes the
\* key into it.  outcome: "no_key", "create_failed" (no file was created),
\* "write_failed" (the file was created, the write failed) or "ok".
AuthKeyWrite(outcome) ==
    /\ wk.pc = "auth"
    /\ auth_method = "Key"
    /\ LET w == [wk EXCEPT !.auth_calls = @ + 1]
       IN  CASE outcome = "no_key" ->
                  /\ wk' = [w EXCEPT !.pc = "failed", !.err = "Private key required"]
                  /\ UNCHANGED key_file
             [] outcome = "create_failed" ->
                  /\ wk' = [w EXCEPT !.pc = "failed", !.err = "Failed to write temp key file"]
                  /\ UNCHANGED key_file
             [] outcome = "write_failed" ->
                  /\ wk' = [w EXCEPT !.pc = "failed", !.err = "Failed to write temp key file"]
                  /\ key_file' = "partial"
             [] outcome = "ok" ->
                  /\ wk' = [w EXCEPT !.pc = "auth_key_chmod"]
                  /\ key_file' = "open"
    /\ UNCHANGED <<state, write_tx, connected_at, hostkey_decision, policy, auth_method,
                   sessions, issued, attempts, known_hosts,
                   queue, rx_alive, chan, caller, count, events>>

\* let _ = std::fs::set_permissions(path, 0o600): the result is ignored.
AuthKeyChmod(ok) ==
    /\ wk.pc = "auth_key_chmod"
    /\ key_file' = IF ok THEN "private" ELSE key_file
    /\ wk' = [wk EXCEPT !.pc = "auth_key_userauth"]
    /\ UNCHANGED <<state, write_tx, connected_at, hostkey_decision, policy, auth_method,
                   sessions, issued, attempts, known_hosts,
                   queue, rx_alive, chan, caller, count, events>>

\* The Auth error the Key strategy maps the library's error to; has holds
\* the words, of those the closure looks for, that the lower-cased error
\* text contains.
KeyAuthError(has) ==
    IF has \cap {"passphrase", "decrypt", "parse"} # {}
    THEN "Invalid passphrase or key format"
    ELSE IF has \cap {"denied", "auth"} # {}
    THEN "Private key not accepted by server"
    ELSE "Private key authentication failed"

\* userauth_pubkey_file; its result (ok, or the error and the words its
\* text contains) is kept in auth_result.
AuthKeyUserauth(result) ==
    /\ wk.pc = "auth_key_userauth"
    /\ wk' = [wk EXCEPT !.pc = "auth_key_remove", !.auth_result = result]
    /\ UNCHANGED <<state, write_tx, connected_at, hostkey_decision, policy, auth_method, key_file,
                   sessions, issued, attempts, known_hosts,
                   queue, rx_alive, chan, caller, count, events>>

\* let _ = std::fs::remove_file(path), the result ignored; then
\* auth_result.map_err(..)? returns the strategy's error, if any.
AuthKeyRemove(ok) ==
    /\ wk.pc = "auth_key_remove"
    /\ key_file' = IF ok THEN "absent" ELSE key_file
    /\ wk' = IF wk.auth_result.ok
             THEN [wk EXCEPT !.pc = "auth_key_check"]
             ELSE [wk EXCEPT !.pc = "failed", !.err = KeyAuthError(wk.auth_result.has)]
    /\ UNCHANGED <<state, write_tx, connected_at, hostkey_decision, policy, auth_method,
                   sessions, issued, attempts, known_hosts,
                   queue, rx_alive, chan, caller, count, events>>

\* The authenticated() check after the Key strategy succeeded.
AuthKeyCheck(authenticated) ==
    /\ wk.pc = "auth_key_check"
    /\ LET res == AuthResult("ok", authenticated)
           w   == [wk EXCEPT !.authenticated = authenticated]
       IN  wk' = IF res = "ok"
                 THEN [w EXCEPT !.pc = "open_channel", !.trail = Append(@, "auth")]
                 ELSE [w EXCEPT !.pc = "failed", !.err = res]
    /\ UNCHANGED <<state, write_tx, connected_at, hostkey_decision, policy, auth_method, key_file,
                   sessions, issued, attempts, known_hosts,
                   queue, rx_alive, chan, caller, count, events>>

\* env::var("SHELL").unwrap_or_else(|_| "/bin/sh"): the SHELL variable of the
\* application's own environment, "" standing for unset.
CandidateShell(env) ==
    IF env = "" THEN "/bin/sh" ELSE env

\* What open_interactive_channel asks for, attempt by attempt: shell(), then
\* exec of "<candidate> -l", "/bin/sh -l", "bash -l" and "sh -l".
ShellCommands(env) ==
    << [req |-> "shell", prog |-> ""],
       [req |-> "exec", prog |-> CandidateShell(env)],
       [req |-> "exec", prog |-> "/bin/sh"],
       [req |-> "exec", prog |-> "bash"],
       [req |-> "exec", prog |-> "sh"] >>

\* ShellLadder that gives up before the generic fallbacks bash and sh.
RECURSIVE ShellLadderSkipsGeneric(_, _, _, _, _)
ShellLadderSkipsGeneric(cmds, results, i, opened, tries) ==
    IF i > 3
    THEN [ok |-> FALSE, channel |-> 0, opened |-> opened, tries |-> tries]
    ELSE LET t == Append(tries, [cmd |-> cmds[i], result |-> results[i]])
         IN  CASE results[i] = "open_failed" ->
                      ShellLadderSkipsGeneric(cmds, results, i + 1, opened, t)
               [] results[i] = "start_failed" ->
                      ShellLadderSkipsGeneric(cmds, results, i + 1, opened + 1, t)
               [] results[i] = "ok" ->
                      [ok |-> TRUE, channel |-> opened + 1, opened |-> opened + 1, tries |-> t]

\* The attempts of open_interactive_channel from the i-th on.  results[i] is
\* what the i-th attempt meets: "open_failed" (open_channel fails: no
\* channel, no PTY, the request is not made), "start_failed" (shell() or
\* exec() fails, the channel is closed) or "ok" (the channel is returned).
\* Channels are numbered in the order they are opened.
RECURSIVE ShellLadder(_, _, _, _, _)
ShellLadder(cmds, results, i, opened, tries) ==
    IF i > Len(cmds)
    THEN [ok |-> FALSE, channel |-> 0, opened |-> opened, tries |-> tries]
    ELSE LET t == Append(tries, [cmd |-> cmds[i], result |-> results[i]])
         IN  CASE results[i] = "open_failed" ->
                      ShellLadder(cmds, results, i + 1, opened, t)
               [] results[i] = "start_failed" ->
                      ShellLadder(cmds, results, i + 1, opened + 1, t)
               [] results[i] = "ok" ->
                      [ok |-> TRUE, channel |-> opened + 1, opened |-> opened + 1, tries |-> t]

\* open_interactive_channel attempt by attempt, then set_blocking(false).
OpenInteractiveChannelLadder(env, results) ==
    /\ wk.pc = "open_channel"
    /\ LET l == ShellLadder(ShellCommands(env), results, 1, 0, <<>>)
           w == [wk EXCEPT !.ladder = [tries |-> l.tries, channel |-> l.channel,
                                       opened |-> l.opened]]
       IN  wk' = IF l.ok
                 THEN [w EXCEPT !.pc = "install_tx", !.trail = Append(@, "channel")]
                 ELSE [w EXCEPT !.pc = "failed", !.err = "Failed to start interactive shell"]
    /\ UNCHANGED <<state, write_tx, connected_at, hostkey_decision, policy, auth_method, key_file, sessions, issued, attempts, known_hosts,
                   queue, rx_alive, chan, caller, count, events>>

\* OpenInteractiveChannel that goes on without a channel when every attempt failed.
OpenInteractiveChannelIgnoresFailure(outcome) ==
    /\ wk.pc = "open_channel"
    /\ wk' = IF outcome = "ok"
             THEN [wk EXCEPT !.pc = "install_tx", !.trail = Append(@, "channel")]
             ELSE [wk EXCEPT !.pc = "install_tx", !.err = "Failed to start interactive shell"]
    /\ UNCHANGED <<state, write_tx, connected_at, hostkey_decision, policy, auth_method, key_file, sessions, issued, attempts, known_hosts,
                   queue, rx_alive, chan, caller, count, events>>

\* open_interactive_channel, then set_blocking(false).
OpenInteractiveChannel(outcome) ==
    /\ wk.pc = "open_channel"
    /\ wk' = IF outcome = "ok"
             THEN [wk EXCEPT !.pc = "install_tx", !.trail = Append(@, "channel")]
             ELSE [wk EXCEPT !.pc = "failed", !.err = "Failed to start interactive shell"]
    /\ UNCHANGED <<state, write_tx, connected_at, hostkey_decision, policy, auth_method, key_file, sessions, issued, attempts, known_hosts,
                   queue, rx_alive, chan, caller, count, events>>

\* mpsc::channel(1024); *self.write_tx.write() = Some(write_tx).
InstallWriteTx ==
    /\ wk.pc = "install_tx"
    /\ queue' = <<>>
    /\ rx_alive' = TRUE
    /\ write_tx' = TRUE
    /\ wk' = [wk EXCEPT !.pc = "set_connected_at"]
    /\ UNCHANGED <<state, connected_at, hostkey_decision, policy, auth_method, key_file, sessions, issued, attempts, known_hosts,
                   chan, caller, count, events>>

\* SetConnectedAt that goes on without writing the timestamp.
SetConnectedAtForgets ==
    /\ wk.pc = "set_connected_at"
    /\ wk' = [wk EXCEPT !.pc = "set_connected"]
    /\ UNCHANGED <<state, write_tx, connected_at, hostkey_decision, policy, auth_method, key_file, sessions, issued, attempts, known_hosts,
                   queue, rx_alive, chan, caller, count, events>>

\* *self.connected_at.write() = Some(now).
SetConnectedAt ==
    /\ wk.pc = "set_connected_at"
    /\ connected_at' = TRUE
    /\ wk' = [wk EXCEPT !.pc = "set_connected"]
    /\ UNCHANGED <<state, write_tx, hostkey_decision, policy, auth_method, key_file, sessions, issued, attempts, known_hosts,
                   queue, rx_alive, chan, caller, count, events>>

\* set_state(Connected); emit ssh:connected.
SetConnected ==
    /\ wk.pc = "set_connected"
    /\ state' = "Connected"
    /\ events' = Emit(events, "ssh:connected")
    /\ wk' = [WorkerSets(wk, "Connected") EXCEPT !.pc = "io_keepalive"]
    /\ UNCHANGED <<write_tx, connected_at, hostkey_decision, policy, auth_method, key_file, sessions, issued, attempts, known_hosts,
                   queue, rx_alive, chan, caller, count>>

\* start_connection's closure when connect_blocking returned Err, text being
\* e.to_string(): set_state(Error), sanitize_error_message, emit ssh:error;
\* the thread ends.  A panic in sanitize_error_message ends the thread
\* before the emit.
EmitError(text) ==
    /\ wk.pc = "failed"
    /\ state' = "Error"
    /\ LET sanitized == sanitize_error_message(text)
       IN  /\ events' = IF sanitized.kind = "ok" THEN Emit(events, "ssh:error") ELSE events
           /\ wk' = [WorkerSets(wk, "Error") EXCEPT
                         !.pc = "done",
                         !.surfaced = [of |-> Norm(text), kind |-> sanitized.kind,
                                       text |-> sanitized.text]]
    /\ UNCHANGED <<write_tx, connected_at, hostkey_decision, policy, auth_method, key_file, sessions, issued, attempts, known_hosts,
                   queue, rx_alive, chan, caller, count>>

\* The closure for an error whose text is short and plain ASCII.
ConnectFailed ==
    EmitError(<<<<1, 40>>>>)

(***************************************************************************)
(* The I/O loop: run_io_loop                                               *)
(***************************************************************************)
\* Keepalive pacing; then the command drain starts (for _ in 0..32).
IoKeepalive ==
    /\ wk.pc = "io_keepalive"
    /\ wk' = [wk EXCEPT !.pc = "io_drain", !.drain_i = 0]
    /\ UNCHANGED <<state, write_tx, connected_at, hostkey_decision, policy, auth_method, key_file, sessions, issued, attempts, known_hosts,
                   queue, rx_alive, chan, caller, count, events>>

\* Where the drain goes after one more command was handled without a break.
AfterCommand(w) ==
    IF w.drain_i + 1 >= DRAIN_BATCH
    THEN [w EXCEPT !.pc = "io_errcheck", !.drain_i = @ + 1]
    ELSE [w EXCEPT !.drain_i = @ + 1]

\* EnqueueWrite with the ceiling tested against the payload alone.
EnqueueWriteChecksPayloadOnly(w, data) ==
    IF BLen(data) > MAX_PENDING_BYTES
    THEN [w EXCEPT !.dropped = @ + 1]
    ELSE [w EXCEPT !.pending = BCat(@, data),
                   !.accepted_after_drop = (@ \/ w.dropped > 0)]

\* Ok(SessionCommand::Write(data)): append to pending unless it would pass the ceiling.
EnqueueWrite(w, data) ==
    IF BLen(w.pending) + BLen(data) > MAX_PENDING_BYTES
    THEN [w EXCEPT !.dropped = @ + 1]
    ELSE [w EXCEPT !.pending = BCat(@, data),
                   !.accepted_after_drop = (@ \/ w.dropped > 0)]

\* TryRecv handing out the newest command instead of the oldest.
TryRecvNewest(q) ==
    [cmd |-> q[Len(q)], rest |-> SubSeq(q, 1, Len(q) - 1)]

\* The command write_rx.try_recv() hands out, and the queue it leaves.
TryRecv(q) ==
    [cmd |-> Head(q), rest |-> Tail(q)]

\* One turn of the drain: write_rx.try_recv() and the match on its result.
\* pty_ok: whether request_pty_size succeeds, when the command is a Resize.
IoDrain(pty_ok) ==
    /\ wk.pc = "io_drain"
    /\ IF queue # <<>>
       THEN LET got == TryRecv(queue)
                cmd == got.cmd
            IN  /\ queue' = got.rest
                /\ CASE cmd.op = "Write" ->
                          /\ wk' = AfterCommand(EnqueueWrite(wk, cmd.arg))
                          /\ UNCHANGED chan
                     [] cmd.op = "Resize" ->
                          /\ wk' = AfterCommand(wk)
                          /\ chan' = IF pty_ok THEN [chan EXCEPT !.pty = cmd.arg] ELSE chan
                     [] cmd.op = "Close" ->
                          /\ wk' = [wk EXCEPT !.pc = "io_errcheck", !.close_seen = TRUE]
                          /\ UNCHANGED chan
       ELSE \* TryRecvError::Empty or TryRecvError::Disconnected
            /\ wk' = [wk EXCEPT !.pc = "io_errcheck"]
            /\ UNCHANGED <<queue, chan>>
    /\ UNCHANGED <<state, write_tx, connected_at, hostkey_decision, policy, auth_method, key_file, sessions, issued, attempts, known_hosts,
                   rx_alive, caller, count, events>>

\* if consecutive_errors >= MAX_CONSECUTIVE_ERRORS { emit ssh:error; break }
IoErrCheck ==
    /\ wk.pc = "io_errcheck"
    /\ IF wk.consecutive_errors >= MAX_CONSECUTIVE_ERRORS
       THEN /\ events' = Emit(events, "ssh:error")
            /\ wk' = [wk EXCEPT !.pc = "cleanup"]
       ELSE /\ wk' = [wk EXCEPT !.pc = "io_read"]
            /\ UNCHANGED events
    /\ UNCHANGED <<state, write_tx, connected_at, hostkey_decision, policy, auth_method, key_file, sessions, issued, attempts, known_hosts,
                   queue, rx_alive, chan, caller, count>>

\* IoRead that takes a read of zero bytes for the end of the stream.
IoReadZeroIsEof(outcome, n) ==
    /\ wk.pc = "io_read"
    /\ outcome = "zero"
    /\ wk' = [wk EXCEPT !.pc = "cleanup"]
    /\ UNCHANGED <<state, write_tx, connected_at, hostkey_decision, policy, auth_method, key_file, sessions, issued, attempts, known_hosts,
                   queue, rx_alive, chan, caller, count, events>>

\* DataOf sending the whole read buffer, whatever the read returned.
DataOfWholeBuffer(buf, n) ==
    buf

\* The payload of the ssh:data event for a read of n bytes: read_buf[..n].
DataOf(buf, n) ==
    BTake(buf, n)

\* One channel.stream(0).read(&mut read_buf) and the match on its result.
IoRead(outcome, n) ==
    /\ wk.pc = "io_read"
    /\ CASE outcome = "data" ->
              LET got == << <<0, BLen(chan.inbound), BLen(chan.inbound) + n>> >>
                  buf == BCat(got, BDrop(wk.read_buf, n))
              IN  /\ n >= 1 /\ n <= READ_BUF_BYTES
                  /\ wk' = [wk EXCEPT !.read_buf = buf, !.read_error_count = 0,
                                      !.consecutive_errors = 0, !.err_run = 0]
                  /\ chan' = [chan EXCEPT !.inbound = BCat(@, got),
                                          !.data = Append(@, DataOf(buf, n))]
                  /\ count' = [count EXCEPT !.read = @ + 1]
         [] outcome \in {"zero", "would_block", "timed_out", "recoverable"} ->
              /\ wk' = [wk EXCEPT !.pc = "io_write"]
              /\ UNCHANGED <<chan, count>>
         [] outcome = "interrupted" ->
              UNCHANGED <<wk, chan, count>>
         [] outcome = "error" ->
              /\ wk' = [wk EXCEPT !.pc = "io_write", !.read_error_count = @ + 1,
                                  !.err_run = @ + 1]
              /\ count' = [count EXCEPT !.read_err = @ + 1]
              /\ UNCHANGED chan
    /\ UNCHANGED <<state, write_tx, connected_at, hostkey_decision, policy, auth_method, key_file, sessions, issued, attempts, known_hosts,
                   queue, rx_alive, caller, events>>

\* What is left of pending after the channel took n bytes: pending.drain(..n).
AfterWrite(pending, n) ==
    BDrop(pending, n)

\* The outbound flush: if pending is empty it is skipped, else one
\* channel.write(&pending[..write_len]) and the match on its result.
IoWrite(outcome, n) ==
    /\ wk.pc = "io_write"
    /\ IF wk.pending = <<>>
       THEN /\ wk' = [wk EXCEPT !.pc = "io_eofcheck"]
            /\ UNCHANGED <<chan, count, events>>
       ELSE LET write_len == Min(BLen(wk.pending), WRITE_CHUNK_BYTES)
                slice == BTake(wk.pending, write_len)
            IN  CASE outcome = "ok" ->
                       LET left == AfterWrite(wk.pending, n)
                       IN  /\ n >= 1 /\ n <= write_len
                           /\ chan' = [chan EXCEPT !.wire = BCat(@, BTake(slice, n))]
                           /\ wk' = [wk EXCEPT !.pending = left,
                                               !.consecutive_errors = 0, !.err_run = 0,
                                               !.pc = IF left = <<>> THEN "io_eofcheck" ELSE @]
                           /\ count' = IF n < write_len
                                       THEN [count EXCEPT !.write_fault = @ + 1]
                                       ELSE count
                           /\ UNCHANGED events
                  [] outcome \in {"zero", "recoverable"} ->
                       UNCHANGED <<wk, chan, count, events>>
                  [] outcome = "error" ->
                       /\ events' = Emit(events, "ssh:error")
                       /\ wk' = [wk EXCEPT !.pending = <<>>, !.pc = "io_eofcheck",
                                           !.err_run = @ + 1]
                       /\ count' = [count EXCEPT !.write_fault = @ + 1]
                       /\ UNCHANGED chan
    /\ UNCHANGED <<state, write_tx, connected_at, hostkey_decision, policy, auth_method, key_file, sessions, issued, attempts, known_hosts,
                   queue, rx_alive, caller>>

\* IoEofCheck that starts the next iteration whatever the channel reports.
IoEofCheckIgnoresEof ==
    /\ wk.pc = "io_eofcheck"
    /\ wk' = [wk EXCEPT !.pc = "io_keepalive"]
    /\ UNCHANGED <<state, write_tx, connected_at, hostkey_decision, policy, auth_method, key_file, sessions, issued, attempts, known_hosts,
                   queue, rx_alive, chan, caller, count, events>>

\* if channel.eof() { break }; else sleep 2 ms and start the next iteration.
IoEofCheck ==
    /\ wk.pc = "io_eofcheck"
    /\ wk' = [wk EXCEPT !.pc = IF chan.eof THEN "cleanup" ELSE "io_keepalive"]
    /\ UNCHANGED <<state, write_tx, connected_at, hostkey_decision, policy, auth_method, key_file, sessions, issued, attempts, known_hosts,
                   queue, rx_alive, chan, caller, count, events>>

\* After the loop: wait_close, set_state(Disconnected).
IoCleanup ==
    /\ wk.pc = "cleanup"
    /\ state' = "Disconnected"
    /\ wk' = [WorkerSets(wk, "Disconnected") EXCEPT !.pc = "closed"]
    /\ UNCHANGED <<write_tx, connected_at, hostkey_decision, policy, auth_method, key_file, sessions, issued, attempts, known_hosts,
                   queue, rx_alive, chan, caller, count, events>>

\* emit ssh:closed; run_io_loop and connect_blocking return Ok, which drops
\* write_rx (and the commands still queued); the thread ends.
IoClosed ==
    /\ wk.pc = "closed"
    /\ events' = Emit(events, "ssh:closed")
    /\ rx_alive' = FALSE
    /\ queue' = <<>>
    /\ wk' = [wk EXCEPT !.pc = "done"]
    /\ UNCHANGED <<state, write_tx, connected_at, hostkey_decision, policy, auth_method, key_file, sessions, issued, attempts, known_hosts,
                   chan, caller, count>>

\* The remote closes the channel: channel.eof() is true from now on.
RemoteEof ==
    /\ wk.pc \in {"io_keepalive", "io_drain", "io_errcheck", "io_read", "io_write", "io_eofcheck"}
    /\ ~chan.eof
    /\ chan' = [chan EXCEPT !.eof = TRUE]
    /\ UNCHANGED <<state, write_tx, connected_at, hostkey_decision, policy, auth_method, key_file, sessions, issued, attempts, known_hosts,
                   queue, rx_alive, wk, caller, count, events>>

(***************************************************************************)
(* The callers: send_data, resize_pty, set_hostkey_decision, disconnect    *)
(***************************************************************************)
\* TrySend that lets one command more than the capacity in.
TrySendOffByOne(q, alive, cmd) ==
    IF ~alive THEN [res |-> "Closed", q |-> q]
    ELSE IF Len(q) > QUEUE_CAPACITY THEN [res |-> "Full", q |-> q]
    ELSE [res |-> "Ok", q |-> Append(q, cmd)]

\* mpsc::Sender::try_send on the handle's sender: Closed when the receiver
\* is gone, Full when the queue holds its capacity, else the command is queued.
TrySend(q, alive, cmd) ==
    IF ~alive THEN [res |-> "Closed", q |-> q]
    ELSE IF Len(q) >= QUEUE_CAPACITY THEN [res |-> "Full", q |-> q]
    ELSE [res |-> "Ok", q |-> Append(q, cmd)]

\* SessionHandle::send_data.
SendData(data) ==
    /\ IF write_tx
       THEN LET r == TrySend(queue, rx_alive, [op |-> "Write", arg |-> data])
            IN  /\ queue' = r.q
                /\ caller' = [caller EXCEPT !.op = "send_data",
                                 !.res = CASE r.res = "Ok"   -> "Ok"
                                           [] r.res = "Full" -> "Output queue full"
                                           [] OTHER          -> "Session closed"]
       ELSE /\ caller' = [caller EXCEPT !.op = "send_data", !.res = "Session closed"]
            /\ UNCHANGED queue
    /\ count' = [count EXCEPT !.send = @ + 1]
    /\ UNCHANGED <<state, write_tx, connected_at, hostkey_decision, policy, auth_method, key_file, sessions, issued, attempts, known_hosts,
                   rx_alive, wk, chan, events>>

\* ResizePty that refuses the call when there is no sender, like send_data.
ResizePtyRejectsEarly(cols, rows) ==
    /\ IF write_tx
       THEN LET r == TrySend(queue, rx_alive, [op |-> "Resize", arg |-> <<cols, rows>>])
            IN  /\ queue' = r.q
                /\ caller' = [caller EXCEPT !.op = "resize_pty",
                                 !.res = IF r.res = "Ok" THEN "Ok" ELSE "Session closed"]
       ELSE /\ caller' = [caller EXCEPT !.op = "resize_pty", !.res = "Session closed"]
            /\ UNCHANGED queue
    /\ count' = [count EXCEPT !.resize = @ + 1]
    /\ UNCHANGED <<state, write_tx, connected_at, hostkey_decision, policy, auth_method, key_file, sessions, issued, attempts, known_hosts,
                   rx_alive, wk, chan, events>>

\* SessionHandle::resize_pty.
ResizePty(cols, rows) ==
    /\ IF write_tx
       THEN LET r == TrySend(queue, rx_alive, [op |-> "Resize", arg |-> <<cols, rows>>])
            IN  /\ queue' = r.q
                /\ caller' = [caller EXCEPT !.op = "resize_pty",
                                 !.res = IF r.res = "Ok" THEN "Ok" ELSE "Session closed"]
       ELSE /\ caller' = [caller EXCEPT !.op = "resize_pty", !.res = "Ok"]
            /\ UNCHANGED queue
    /\ count' = [count EXCEPT !.resize = @ + 1]
    /\ UNCHANGED <<state, write_tx, connected_at, hostkey_decision, policy, auth_method, key_file, sessions, issued, attempts, known_hosts,
                   rx_alive, wk, chan, events>>

\* SessionHandle::set_hostkey_decision.
SetHostkeyDecision(decision) ==
    /\ hostkey_decision' = decision
    /\ caller' = [caller EXCEPT !.op = "set_hostkey_decision", !.res = "Ok",
                                !.decided_waiting = (state = "WaitingForHostKey")]
    /\ count' = [count EXCEPT !.decision = @ + 1]
    /\ UNCHANGED <<state, write_tx, connected_at, policy, auth_method, key_file, sessions, issued, attempts, known_hosts,
                   queue, rx_alive, wk, chan, events>>

\* DisconnectTake that keeps the sender when Close cannot be queued.
DisconnectTakeKeepsSender ==
    /\ caller.disc = "idle"
    /\ IF write_tx
       THEN LET r == TrySend(queue, rx_alive, [op |-> "Close", arg |-> <<>>])
            IN  /\ queue' = r.q
                /\ write_tx' = (r.res # "Ok")
       ELSE UNCHANGED <<queue, write_tx>>
    /\ caller' = [caller EXCEPT !.disc = "set_state", !.op = "disconnect", !.res = ""]
    /\ count' = [count EXCEPT !.disconnect = @ + 1]
    /\ UNCHANGED <<state, connected_at, hostkey_decision, policy, auth_method, key_file, sessions, issued, attempts, known_hosts,
                   rx_alive, wk, chan, events>>

\* SessionHandle::disconnect, first statement: take the sender out of the
\* handle and try_send(Close) on it (the result is ignored); the sender is dropped.
DisconnectTake ==
    /\ caller.disc = "idle"
    /\ IF write_tx
       THEN queue' = TrySend(queue, rx_alive, [op |-> "Close", arg |-> <<>>]).q
       ELSE UNCHANGED queue
    /\ write_tx' = FALSE
    /\ caller' = [caller EXCEPT !.disc = "set_state", !.op = "disconnect", !.res = ""]
    /\ count' = [count EXCEPT !.disconnect = @ + 1]
    /\ UNCHANGED <<state, connected_at, hostkey_decision, policy, auth_method, key_file, sessions, issued, attempts, known_hosts,
                   rx_alive, wk, chan, events>>

\* SessionHandle::disconnect, the rest: set_state(Disconnected), emit ssh:disconnected.
DisconnectSetState ==
    /\ caller.disc = "set_state"
    /\ state' = "Disconnected"
    /\ events' = Emit(events, "ssh:disconnected")
    /\ caller' = [caller EXCEPT !.disc = "idle", !.op = "disconnect", !.res = "Ok"]
    /\ UNCHANGED <<write_tx, connected_at, hostkey_decision, policy, auth_method, key_file, sessions, issued, attempts, known_hosts,
                   queue, rx_alive, wk, chan, count>>

\* SessionHandle::info (also called for each entry by list_sessions), up to
\* the state field: *self.state.read().
InfoReadState ==
    /\ caller.info = "idle"
    /\ caller' = [caller EXCEPT !.info = state]
    /\ UNCHANGED <<state, write_tx, connected_at, hostkey_decision, policy, auth_method, key_file,
                   sessions, issued, attempts, known_hosts, queue, rx_alive, wk, chan, count, events>>

\* SessionHandle::info, the rest: *self.connected_at.read(); the snapshot is returned.
InfoReadConnectedAt ==
    /\ caller.info # "idle"
    /\ caller' = [caller EXCEPT !.info = "idle", !.op = "info",
                                !.snap = [state |-> caller.info, connected_at |-> connected_at]]
    /\ UNCHANGED <<state, write_tx, connected_at, hostkey_decision, policy, auth_method, key_file,
                   sessions, issued, attempts, known_hosts, queue, rx_alive, wk, chan, count, events>>

(***************************************************************************)
(* The registry: SessionManager                                            *)
(***************************************************************************)
\* What is remembered of a handle's connection attempt when the model moves
\* on to a newer handle.
AttemptOf(w) ==
    [ key |-> w.presented, check |-> w.check, decision |-> w.decision,
      persisted |-> w.persisted, read_ok |-> w.read_ok ]

\* Insert that drops the other entries.
InsertAlone(map, id, handle) ==
    [i \in {id} |-> handle]

\* DashMap::insert: the entry for id is added, or replaced if there is one.
Insert(map, id, handle) ==
    [i \in DOMAIN map \cup {id} |-> IF i = id THEN handle ELSE map[i]]

\* SessionManager::create_session, id being the value of Uuid::new_v4():
\* SessionHandle::new, then sessions.insert(id, handle).  From here on the
\* handle variables describe the new handle; the trust store, the files and
\* the configuration are those of the application.
CreateSession(id) ==
    /\ sessions' = Insert(sessions, id, Len(issued) + 1)
    /\ issued' = Append(issued, id)
    /\ attempts' = IF wk.pc = "idle" THEN attempts ELSE Append(attempts, AttemptOf(wk))
    /\ state' = "Created"
    /\ write_tx' = FALSE
    /\ connected_at' = FALSE
    /\ hostkey_decision' = "None"
    /\ queue' = <<>>
    /\ rx_alive' = FALSE
    /\ wk' = NewWorker
    /\ chan' = NewChannel
    /\ events' = [n \in EventNames |-> 0]
    /\ caller' = [caller EXCEPT !.disc = "idle", !.op = "create_session", !.res = "Ok"]
    /\ UNCHANGED <<policy, auth_method, key_file, known_hosts, count>>

\* SessionManager::remove_session.
RemoveSession(id) ==
    /\ sessions' = [i \in DOMAIN sessions \ {id} |-> sessions[i]]
    /\ caller' = [caller EXCEPT !.op = "remove_session",
                                !.res = IF id \in DOMAIN sessions THEN "Some" ELSE "None"]
    /\ UNCHANGED <<state, write_tx, connected_at, hostkey_decision, policy, auth_method, key_file,
                   issued, attempts, known_hosts, queue, rx_alive, wk, chan, count, events>>

\* RemoveNothing: a remove that leaves the entry in the map.
RemoveNothing(map, id) ==
    map

\* DashMap::remove: the map without the entry for id.
Remove(map, id) ==
    [i \in DOMAIN map \ {id} |-> map[i]]

\* SessionManager::get_session: the handle under id, 0 standing for None.
GetSession(map, id) ==
    IF id \in DOMAIN map THEN map[id] ELSE 0

\* The handle the model describes: the one made by the latest create_session.
Newest ==
    Len(issued)

\* get_session(id).ok_or_else(|| AppError::Ssh("Session not found: ..."))?
\* when there is no entry: the operation returns the error, nothing else happens.
SessionNotFound(op) ==
    /\ caller' = [caller EXCEPT !.op = op, !.res = "Ssh(Session not found)"]
    /\ UNCHANGED <<state, write_tx, connected_at, hostkey_decision, policy, auth_method, key_file,
                   sessions, issued, attempts, known_hosts, queue, rx_alive, wk, chan, count, events>>

\* SessionManager::connect_session.
MgrConnectSession(id) ==
    IF GetSession(sessions, id) = 0 THEN SessionNotFound("connect_session")
    ELSE GetSession(sessions, id) = Newest /\ StartConnection

\* SessionManager::set_hostkey_decision.
MgrSetHostkeyDecision(id, decision) ==
    IF GetSession(sessions, id) = 0 THEN SessionNotFound("set_hostkey_decision")
    ELSE GetSession(sessions, id) = Newest /\ SetHostkeyDecision(decision)

\* SessionManager::send_data.
MgrSendData(id, data) ==
    IF GetSession(sessions, id) = 0 THEN SessionNotFound("send_data")
    ELSE GetSession(sessions, id) = Newest /\ SendData(data)

\* SessionManager::resize_pty.
MgrResizePty(id, cols, rows) ==
    IF GetSession(sessions, id) = 0 THEN SessionNotFound("resize_pty")
    ELSE GetSession(sessions, id) = Newest /\ ResizePty(cols, rows)

\* SessionManager::disconnect, first statement: get_session(id), or the error.
MgrDisconnectGet(id) ==
    /\ caller.mgr = "idle"
    /\ caller.disc = "idle"
    /\ IF GetSession(sessions, id) = 0
       THEN SessionNotFound("disconnect")
       ELSE /\ caller' = [caller EXCEPT !.mgr = "handle", !.mgr_id = id,
                                        !.mgr_handle = GetSession(sessions, id),
                                        !.mgr_seen = count.disconnect]
            /\ UNCHANGED <<state, write_tx, connected_at, hostkey_decision, policy, auth_method,
                           key_file, sessions, issued, attempts, known_hosts, queue, rx_alive,
                           wk, chan, count, events>>

\* SessionManager::disconnect: session.disconnect()? on the handle it got.
\* DisconnectSetState ends the call on the handle.
MgrDisconnectHandle ==
    /\ caller.mgr = "handle"
    /\ caller.mgr_handle = Newest
    /\ count.disconnect = caller.mgr_seen
    /\ DisconnectTake

\* The handle's disconnect has returned (it always returns Ok).  For a handle
\* older than the one the model describes it touches that handle only.
HandleDisconnectReturned ==
    \/ caller.mgr_handle # Newest
    \/ count.disconnect > caller.mgr_seen /\ caller.disc = "idle"

\* SessionManager::disconnect, the rest: sleep(100 ms), remove_session(id), Ok.
\* The sleep is the time between the handle's disconnect and this step.
MgrDisconnectRemove ==
    /\ caller.mgr = "handle"
    /\ HandleDisconnectReturned
    /\ sessions' = Remove(sessions, caller.mgr_id)
    /\ caller' = [caller EXCEPT !.mgr = "idle", !.op = "disconnect", !.res = "Ok",
                                !.mgr_done = @ \cup {caller.mgr_handle}]
    /\ UNCHANGED <<state, write_tx, connected_at, hostkey_decision, policy, auth_method, key_file,
                   issued, attempts, known_hosts, queue, rx_alive, wk, chan, count, events>>

(***************************************************************************)
(* Spec: the life of a session.  One handle, one connection attempt with   *)
(* every outcome of every stage, and the callers.                          *)
(***************************************************************************)
CallsMade ==
    count.send + count.resize + count.disconnect + count.decision

ChannelEvents ==
    count.read + count.read_err + count.write_fault

Init ==
    /\ InitHandle
    /\ InitManager
    /\ auth_method = "Password"
    /\ policy = "Strict"
    /\ known_hosts \in {{}, {"keyA"}}

Handshake ==
    \E outcome \in {"ok", "TCP connect failed", "SSH handshake failed"}, key \in HostKeys :
        TcpAndHandshake(outcome, key)

Verify ==
    \E lib \in {"ok", "no_host_key", "known_hosts_failed", "read_file_failed", "check_failure"} :
        VerifyHostKey(lib)

WaitDecision ==
    \E timed_out \in BOOLEAN : WaitForHostkeyDecision(timed_out)

Persist ==
    \E outcome \in {"ok", "Failed to add known host", "Failed to write known_hosts"} :
        PersistKnownHost(outcome)

Auth ==
    \E strategy \in {"ok", "Password authentication failed"}, authenticated \in BOOLEAN :
        /\ strategy # "ok" => ~authenticated
        /\ Authenticate(strategy, authenticated)

OpenChannel ==
    \E outcome \in {"ok", "failed"} : OpenInteractiveChannel(outcome)

Drain ==
    \E pty_ok \in BOOLEAN : IoDrain(pty_ok)

Read ==
    \/ \E outcome \in {"zero", "would_block", "timed_out", "recoverable", "interrupted"} :
           IoRead(outcome, 0)
    \/ /\ ChannelEvents < MaxChannelEvents
       /\ \/ IoRead("data", 1)
          \/ IoRead("error", 0)

Write ==
    \/ IoWrite("ok", Min(BLen(wk.pending), WRITE_CHUNK_BYTES))
    \/ \E outcome \in {"zero", "recoverable"} : IoWrite(outcome, 0)
    \/ /\ ChannelEvents < MaxChannelEvents
       /\ IoWrite("error", 0)

Send ==
    /\ CallsMade < MaxCalls
    /\ SendData(Bytes(count.send + 1, 1))

Resize ==
    /\ CallsMade < MaxCalls
    /\ ResizePty(120, 40)

Decide ==
    /\ CallsMade < MaxCalls
    /\ \E d \in HostKeyDecisions : SetHostkeyDecision(d)

DisconnectCall ==
    /\ CallsMade < MaxCalls
    /\ DisconnectTake

Next ==
    \/ StartConnection
    \/ ConnectBlockingBegin
    \/ Handshake
    \/ Verify
    \/ WaitDecision
    \/ ClearHostkeyDecision
    \/ Persist
    \/ Auth
    \/ OpenChannel
    \/ InstallWriteTx
    \/ SetConnectedAt
    \/ SetConnected
    \/ ConnectFailed
    \/ IoKeepalive
    \/ Drain
    \/ IoErrCheck
    \/ Read
    \/ Write
    \/ IoEofCheck
    \/ IoCleanup
    \/ IoClosed
    \/ RemoteEof
    \/ Send
    \/ Resize
    \/ Decide
    \/ DisconnectCall
    \/ DisconnectSetState

Spec ==
    Init /\ [][Next]_vars

(***************************************************************************)
(* SpecConnect: the connect sequence alone, under every trust policy.      *)
(* The attempt is followed up to the moment the I/O loop would start.      *)
(***************************************************************************)
InitConnect ==
    /\ InitHandle
    /\ InitManager
    /\ auth_method = "Password"
    /\ policy \in KnownHostsPolicies
    /\ known_hosts \in {{}, {"keyA"}}

NextConnect ==
    \/ StartConnection
    \/ ConnectBlockingBegin
    \/ Handshake
    \/ Verify
    \/ WaitDecision
    \/ ClearHostkeyDecision
    \/ Persist
    \/ Auth
    \/ OpenChannel
    \/ InstallWriteTx
    \/ SetConnectedAt
    \/ SetConnected
    \/ ConnectFailed
    \/ Send
    \/ Resize
    \/ Decide
    \/ DisconnectCall
    \/ DisconnectSetState

SpecConnect ==
    InitConnect /\ [][NextConnect]_vars

(***************************************************************************)
(* SpecOutbound and SpecInbound: the data path of a session whose connect  *)
(* sequence succeeds (known host key, accepted credentials).               *)
(***************************************************************************)
InitData ==
    /\ InitHandle
    /\ InitManager
    /\ auth_method = "Password"
    /\ policy = "Strict"
    /\ known_hosts = {"keyA"}

\* The connect sequence without failures, and the stages of the I/O loop
\* that take no input.
ConnectAndLoop ==
    \/ StartConnection
    \/ ConnectBlockingBegin
    \/ TcpAndHandshake("ok", "keyA")
    \/ VerifyHostKey("ok")
    \/ Authenticate("ok", TRUE)
    \/ OpenInteractiveChannel("ok")
    \/ InstallWriteTx
    \/ SetConnectedAt
    \/ SetConnected
    \/ IoKeepalive
    \/ IoDrain(TRUE)
    \/ IoErrCheck
    \/ IoEofCheck
    \/ IoCleanup
    \/ IoClosed
    \/ RemoteEof

\* Outbound: payloads large enough to reach the ceiling of the pending
\* buffer; a write takes the whole chunk, or one byte, or stalls, or fails.
\* Nothing arrives from the remote.
OutRead ==
    \E outcome \in {"zero", "would_block"} : IoRead(outcome, 0)

OutWrite ==
    \/ IoWrite("ok", Min(BLen(wk.pending), WRITE_CHUNK_BYTES))
    \/ \E outcome \in {"zero", "recoverable"} : IoWrite(outcome, 0)
    \/ /\ count.write_fault < OutMaxWriteFaults
       /\ \/ IoWrite("ok", 1)
          \/ IoWrite("error", 0)

OutSend ==
    /\ count.send < OutMaxSends
    /\ \E len \in {1, MAX_PENDING_BYTES - 1} : SendData(Bytes(count.send + 1, len))

NextOutbound ==
    \/ ConnectAndLoop
    \/ OutRead
    \/ OutWrite
    \/ OutSend

SpecOutbound ==
    InitData /\ [][NextOutbound]_vars

\* Inbound: a read returns one byte or a full buffer, or nothing, or fails
\* with a recoverable or a non-recoverable error.  Nothing is sent.
InRead ==
    \/ \E outcome \in {"zero", "would_block", "timed_out", "recoverable", "interrupted"} :
           IoRead(outcome, 0)
    \/ /\ count.read < InMaxReads
       /\ \E n \in {1, READ_BUF_BYTES} : IoRead("data", n)
    \/ /\ count.read_err < InMaxReadErrors
       /\ IoRead("error", 0)

InWrite ==
    IoWrite("ok", 0)

NextInbound ==
    \/ ConnectAndLoop
    \/ InRead
    \/ InWrite

SpecInbound ==
    InitData /\ [][NextInbound]_vars

(***************************************************************************)
(* SpecStalled: the outbound path against a remote that has stopped        *)
(* taking data: every channel.write returns zero bytes, or fails with a    *)
(* recoverable error (in blocking mode, the 30 s session timeout).  The    *)
(* worker thread is scheduled fairly.                                      *)
(***************************************************************************)
StalledWrite ==
    \E outcome \in {"zero", "recoverable"} : IoWrite(outcome, 0)

StalledWorker ==
    \/ ConnectAndLoop
    \/ OutRead
    \/ StalledWrite

NextStalled ==
    \/ StalledWorker
    \/ OutSend

SpecStalled ==
    InitData /\ [][NextStalled]_vars /\ WF_vars(StalledWorker)

(***************************************************************************)
(* SpecFull: a stalled remote and a caller that keeps sending the same     *)
(* one-byte chunk once the channel exists (ssh_stress_write).  Every write *)
(* to the channel returns zero, so the worker stops draining the queue     *)
(* and the queue fills to its capacity.  The caller stops sending when it  *)
(* is told 'Session closed', and disconnects only a session whose queue is *)
(* backed up to its last slot, and may then disconnect it once more.       *)
(***************************************************************************)
FullSend ==
    /\ rx_alive
    /\ caller.res # "Session closed"
    /\ count.send < FullMaxSends
    /\ SendData(Bytes(1, 1))

FullDisconnect ==
    /\ rx_alive
    /\ Len(queue) >= QUEUE_CAPACITY - 1
    /\ count.disconnect < FullMaxDisconnects
    /\ DisconnectTake

NextFull ==
    \/ StartConnection
    \/ ConnectBlockingBegin
    \/ TcpAndHandshake("ok", "keyA")
    \/ VerifyHostKey("ok")
    \/ Authenticate("ok", TRUE)
    \/ OpenInteractiveChannel("ok")
    \/ InstallWriteTx
    \/ SetConnectedAt
    \/ SetConnected
    \/ IoKeepalive
    \/ IoDrain(TRUE)
    \/ IoErrCheck
    \/ IoRead("would_block", 0)
    \/ IoWrite("zero", 0)
    \/ IoEofCheck
    \/ FullSend
    \/ FullDisconnect
    \/ DisconnectSetState

SpecFull ==
    InitData /\ [][NextFull]_vars

(***************************************************************************)
(* SpecTrust: the trust store over several sessions to the same host and   *)
(* port.  Each session is a new handle, created when the connect sequence  *)
(* of the one before has ended; every attempt gets through TCP, handshake, *)
(* authentication and channel opening, and the user answers each prompt    *)
(* at most once.                                                           *)
(***************************************************************************)
InitTrust ==
    /\ InitHandle
    /\ InitManager
    /\ auth_method = "Password"
    /\ policy = "Ask"
    /\ known_hosts = {}

TrustHandshake ==
    \E key \in HostKeys : TcpAndHandshake("ok", key)

TrustVerify ==
    \E lib \in {"ok", "read_file_failed"} : VerifyHostKey(lib)

TrustPersist ==
    \E outcome \in {"ok", "Failed to write known_hosts"} : PersistKnownHost(outcome)

TrustDecide ==
    /\ wk.pc = "wait_hostkey"
    /\ hostkey_decision = "None"
    /\ \E d \in HostKeyDecisions : SetHostkeyDecision(d)

TrustNextSession ==
    /\ Len(issued) < TrustMaxSessions
    /\ wk.pc \in {"done", "io_keepalive"}
    /\ CreateSession(Len(issued) + 1)

NextTrust ==
    \/ StartConnection
    \/ ConnectBlockingBegin
    \/ TrustHandshake
    \/ TrustVerify
    \/ WaitDecision
    \/ ClearHostkeyDecision
    \/ TrustPersist
    \/ Authenticate("ok", TRUE)
    \/ OpenInteractiveChannel("ok")
    \/ InstallWriteTx
    \/ SetConnectedAt
    \/ SetConnected
    \/ ConnectFailed
    \/ TrustDecide
    \/ TrustNextSession

SpecTrust ==
    InitTrust /\ [][NextTrust]_vars

(***************************************************************************)
(* SpecAuth: a session configured for private-key authentication, to a     *)
(* host whose key is known; every outcome of the file operations and of    *)
(* the library's authentication call.                                      *)
(***************************************************************************)
InitAuth ==
    /\ InitHandle
    /\ InitManager
    /\ auth_method = "Key"
    /\ policy = "Strict"
    /\ known_hosts = {"keyA"}

KeyWrite ==
    \E outcome \in {"no_key", "create_failed", "write_failed", "ok"} : AuthKeyWrite(outcome)

KeyChmod ==
    \E ok \in BOOLEAN : AuthKeyChmod(ok)

KeyUserauth ==
    \/ AuthKeyUserauth([ok |-> TRUE, has |-> {}])
    \/ \E has \in {{}, {"auth", "denied"}, {"parse"}, {"passphrase", "auth"}} :
           AuthKeyUserauth([ok |-> FALSE, has |-> has])

KeyRemove ==
    \E ok \in BOOLEAN : AuthKeyRemove(ok)

KeyCheck ==
    \E authenticated \in BOOLEAN : AuthKeyCheck(authenticated)

NextAuth ==
    \/ StartConnection
    \/ ConnectBlockingBegin
    \/ TcpAndHandshake("ok", "keyA")
    \/ VerifyHostKey("ok")
    \/ KeyWrite
    \/ KeyChmod
    \/ KeyUserauth
    \/ KeyRemove
    \/ KeyCheck
    \/ OpenChannel
    \/ InstallWriteTx
    \/ SetConnectedAt
    \/ SetConnected
    \/ ConnectFailed
    \/ Send
    \/ Resize
    \/ DisconnectCall
    \/ DisconnectSetState

SpecAuth ==
    InitAuth /\ [][NextAuth]_vars

(***************************************************************************)
(* SpecCredentials: a session configured for password or private-key       *)
(* authentication, to a host whose key is known.  The password is missing  *)
(* or one of two; the server accepts the credential or the library fails   *)
(* with one of several error texts.                                        *)
(***************************************************************************)
InitCredentials ==
    /\ InitHandle
    /\ InitManager
    /\ auth_method \in {"Password", "Key"}
    /\ policy = "Strict"
    /\ known_hosts = {"keyA"}

NextCredentials ==
    \/ StartConnection
    \/ ConnectBlockingBegin
    \/ TcpAndHandshake("ok", "keyA")
    \/ VerifyHostKey("ok")
    \/ \E password \in {"none", "hunter2", "correct horse"},
          lib \in {"ok", "Authentication failed (username/password)",
                   "Unable to send userauth-password request"},
          authenticated \in BOOLEAN :
           /\ authenticated => (password # "none" /\ lib = "ok")
           /\ AuthenticatePassword(password, lib, authenticated)
    \/ KeyWrite
    \/ KeyChmod
    \/ KeyUserauth
    \/ KeyRemove
    \/ KeyCheck
    \/ OpenInteractiveChannel("ok")
    \/ InstallWriteTx
    \/ SetConnectedAt
    \/ SetConnected
    \/ ConnectFailed
    \/ DisconnectCall
    \/ DisconnectSetState

SpecCredentials ==
    InitCredentials /\ [][NextCredentials]_vars

(***************************************************************************)
(* SpecAgent: a session configured for agent authentication, to a host     *)
(* whose key is known.  The agent is unreachable, or holds up to           *)
(* AgentMaxIdentities identities, each accepted by the server or not.      *)
(***************************************************************************)
InitAgent ==
    /\ InitHandle
    /\ InitManager
    /\ auth_method = "Agent"
    /\ policy = "Strict"
    /\ known_hosts = {"keyA"}

IdentityLists ==
    UNION {[1..n -> BOOLEAN] : n \in 0..AgentMaxIdentities}

AgentAuth ==
    \E reach \in {"ok", "agent_failed", "connect_failed", "list_failed", "identities_failed"},
       ids \in IdentityLists, authenticated \in BOOLEAN :
        /\ AgentStrategy(reach, ids) # "ok" => ~authenticated
        /\ AuthenticateAgent(reach, ids, authenticated)

NextAgent ==
    \/ StartConnection
    \/ ConnectBlockingBegin
    \/ TcpAndHandshake("ok", "keyA")
    \/ VerifyHostKey("ok")
    \/ AgentAuth
    \/ OpenChannel
    \/ InstallWriteTx
    \/ SetConnectedAt
    \/ SetConnected
    \/ ConnectFailed
    \/ Send
    \/ DisconnectCall
    \/ DisconnectSetState

SpecAgent ==
    InitAgent /\ [][NextAgent]_vars

(***************************************************************************)
(* SpecChannel: the channel opener of a session that got through           *)
(* authentication, with every outcome of each of its attempts, the SHELL   *)
(* variable of the application set or not.                                 *)
(***************************************************************************)
AttemptResults ==
    [1..5 -> {"open_failed", "start_failed", "ok"}]

ChannelLadder ==
    \E env \in {"", "/usr/bin/zsh"}, results \in AttemptResults :
        OpenInteractiveChannelLadder(env, results)

NextChannel ==
    \/ StartConnection
    \/ ConnectBlockingBegin
    \/ TcpAndHandshake("ok", "keyA")
    \/ VerifyHostKey("ok")
    \/ Authenticate("ok", TRUE)
    \/ ChannelLadder
    \/ InstallWriteTx
    \/ SetConnectedAt
    \/ SetConnected
    \/ ConnectFailed
    \/ DisconnectCall
    \/ DisconnectSetState

SpecChannel ==
    InitData /\ [][NextChannel]_vars

(***************************************************************************)
(* SpecInfo: a reader taking snapshots of the handle while the worker runs *)
(* the connect sequence and a caller disconnects.                          *)
(***************************************************************************)
NextInfo ==
    \/ StartConnection
    \/ ConnectBlockingBegin
    \/ TcpAndHandshake("ok", "keyA")
    \/ VerifyHostKey("ok")
    \/ Auth
    \/ OpenChannel
    \/ InstallWriteTx
    \/ SetConnectedAt
    \/ SetConnected
    \/ ConnectFailed
    \/ DisconnectCall
    \/ DisconnectSetState
    \/ InfoReadState
    \/ InfoReadConnectedAt

SpecInfo ==
    InitData /\ [][NextInfo]_vars

(***************************************************************************)
(* SpecRegistry: sessions are created and removed; none is connected.      *)
(* Uuid::new_v4 draws the identifier from a small set of values.           *)
(***************************************************************************)
SessionIds ==
    1..RegMaxIds

RegCreate ==
    /\ Len(issued) < RegMaxCreates
    /\ \E id \in SessionIds : CreateSession(id)

RegRemove ==
    \E id \in SessionIds : RemoveSession(id)

NextRegistry ==
    \/ RegCreate
    \/ RegRemove

SpecRegistry ==
    Init /\ [][NextRegistry]_vars

(***************************************************************************)
(* SpecManager: the registry in front of the sessions.  Every operation    *)
(* goes through SessionManager with an identifier that is in the registry  *)
(* or not; sessions are created, connected, used and disconnected while    *)
(* the worker of the newest one runs its connect sequence (known host key, *)
(* accepted credentials).                                                  *)
(***************************************************************************)
InitManaged ==
    /\ InitHandle
    /\ InitManager
    /\ auth_method = "Password"
    /\ policy = "Ask"
    /\ known_hosts = {"keyA"}

MgrCreate ==
    /\ Len(issued) <= MgrMaxCreates
    /\ caller.disc = "idle"
    /\ \E id \in SessionIds : CreateSession(id)

\* The calls that reached a handle so far.
MgrCalls ==
    count.send + count.resize + count.decision

MgrConnect ==
    \E id \in SessionIds : MgrConnectSession(id)

MgrDecide ==
    \E id \in SessionIds :
        /\ GetSession(sessions, id) # 0 => MgrCalls < MgrMaxCalls
        /\ MgrSetHostkeyDecision(id, "TrustOnce")

MgrSend ==
    \E id \in SessionIds :
        /\ GetSession(sessions, id) # 0 => MgrCalls < MgrMaxCalls
        /\ MgrSendData(id, Bytes(count.send + 1, 1))

MgrResize ==
    \E id \in SessionIds :
        /\ GetSession(sessions, id) # 0 => MgrCalls < MgrMaxCalls
        /\ MgrResizePty(id, 120, 40)

MgrDisconnect ==
    \E id \in SessionIds : MgrDisconnectGet(id)

NextManager ==
    \/ MgrCreate
    \/ MgrConnect
    \/ MgrDecide
    \/ MgrSend
    \/ MgrResize
    \/ MgrDisconnect
    \/ MgrDisconnectHandle
    \/ DisconnectSetState
    \/ MgrDisconnectRemove
    \/ ConnectBlockingBegin
    \/ TcpAndHandshake("ok", "keyA")
    \/ VerifyHostKey("ok")
    \/ Authenticate("ok", TRUE)
    \/ OpenInteractiveChannel("ok")
    \/ InstallWriteTx
    \/ SetConnectedAt
    \/ SetConnected

SpecManager ==
    InitManaged /\ [][NextManager]_vars

(***************************************************************************)
(* SpecZero: the inbound path of a session whose reads never block: a      *)
(* read returns data, or zero bytes, or fails with a non-recoverable       *)
(* error, so an inbound drain without an error ends by a read of zero      *)
(* bytes.  The caller may disconnect.                                      *)
(***************************************************************************)
NextZero ==
    \/ ConnectAndLoop
    \/ IoRead("zero", 0)
    \/ /\ count.read < InMaxReads
       /\ \E n \in {1, READ_BUF_BYTES} : IoRead("data", n)
    \/ /\ count.read_err < InMaxReadErrors
       /\ IoRead("error", 0)
    \/ InWrite
    \/ DisconnectCall
    \/ DisconnectSetState

SpecZero ==
    InitData /\ [][NextZero]_vars

(***************************************************************************)
(* SpecTwice: a session that connects, and callers that call               *)
(* connect_session for it once more and disconnect it.                     *)
(***************************************************************************)
NextTwice ==
    \/ ConnectAndLoop
    \/ OutRead
    \/ InWrite
    \/ StartConnectionAgain
    \/ SecondWorkerBegin
    \/ DisconnectCall
    \/ DisconnectSetState

SpecTwice ==
    InitData /\ [][NextTwice]_vars

(***************************************************************************)
(* SpecSanitize: a connect sequence that fails at the transport, with the   *)
(* error text of every length around the limit, in plain ASCII and with    *)
(* characters of two and three bytes (the library's error detail, the      *)
(* operating system's message, the configured host name).                  *)
(***************************************************************************)
\* The error text is one or two runs of characters.
SanitizeFailed ==
    LET widths == {1, 2, 3}
        counts == {0, 1, 66, 100, SANITIZE_BYTES - 1, SANITIZE_BYTES, MsgMaxChars}
    IN  \E w1 \in widths, n1 \in counts, w2 \in widths, n2 \in counts :
            EmitError(<<<<w1, n1>>, <<w2, n2>>>>)

NextSanitize ==
    \/ StartConnection
    \/ ConnectBlockingBegin
    \/ \E outcome \in {"TCP connect failed", "SSH handshake failed"}, key \in HostKeys :
           TcpAndHandshake(outcome, key)
    \/ SanitizeFailed

SpecSanitize ==
    InitData /\ [][NextSanitize]_vars

(***************************************************************************)
(* Properties                                                              *)
(***************************************************************************)
Terminal ==
    {"Disconnected", "Error"}

SetByWorker(s) ==
    \E i \in 1..Len(wk.sets) : wk.sets[i] = s

\* C1: in an attempt whose host-key check returned Mismatch, authenticate is
\* never called, the worker never sets Connected (nor WaitingForHostKey),
\* the attempt goes straight to its failure path, and its last act is to set
\* the state to Error; afterwards only a caller's disconnect can change the
\* state.  This holds for every known_hosts_policy and every content of the
\* decision slot.
C1_MismatchAborts ==
    wk.check = "Mismatch" =>
        /\ wk.auth_calls = 0
        /\ wk.pc \in {"failed", "done"}
        /\ wk.err = "Host key mismatch - possible security risk"
        /\ state # "Connected"
        /\ ~SetByWorker("Connected")
        /\ ~SetByWorker("WaitingForHostKey")
        /\ ~write_tx
        /\ wk.pc = "done" =>
              /\ wk.sets[Len(wk.sets)] = "Error"
              /\ state = "Error" \/ (state = "Disconnected" /\ count.disconnect > 0)

C1_Witness ==
    /\ wk.check = "Mismatch"
    /\ wk.pc = "done"
    /\ state = "Error"
    /\ policy = "Accept"
    /\ hostkey_decision = "TrustAlways"

\* C2: once a Close command has been dequeued, the loop ends at its next
\* check: no further iteration of the I/O loop is started.
C2_CloseEndsLoop ==
    wk.close_seen => wk.pc \notin {"io_keepalive", "io_drain"}

\* C4: Disconnected and Error are terminal: no step changes a state that is
\* Disconnected or Error.
C4_TerminalStatesStay ==
    [][(state \in Terminal) => (state' = state)]_vars

\* C5: a handle in state Connected has a sender installed whose receiving
\* end the worker still holds.
C5_ConnectedHasLiveSender ==
    state = "Connected" => (write_tx /\ rx_alive)

\* C6: a send_data call made while the state is Disconnected or Error
\* returns 'Session closed' and enqueues nothing.
C6_SendAfterTerminalFails ==
    [][(state \in Terminal /\ count'.send = count.send + 1) =>
          (caller'.res = "Session closed" /\ queue' = queue)]_vars

\* C3: after five or more non-recoverable I/O errors in a row the loop does
\* not pass its error check again: it never goes on to another read.
C3_FiveErrorsEndLoop ==
    wk.err_run >= MAX_CONSECUTIVE_ERRORS => wk.pc # "io_read"

\* The bytes of the Write commands in a queue, oldest first, run by run.
RECURSIVE QueuedRuns(_)
QueuedRuns(q) ==
    IF q = <<>> THEN <<>>
    ELSE (IF q[1].op = "Write" THEN q[1].arg ELSE <<>>) \o QueuedRuns(Tail(q))

\* Runs in strictly increasing order of (call number, offset): every byte at
\* most once, no byte before a byte of an earlier call or an earlier offset.
InCallOrder(runs) ==
    \A i \in 1..(Len(runs) - 1) :
        \/ runs[i][1] < runs[i + 1][1]
        \/ runs[i][1] = runs[i + 1][1] /\ runs[i][3] <= runs[i + 1][2]

\* C7: the bytes written to the channel, then the pending buffer, then the
\* payloads still queued, are in the order of the send_data calls that were
\* accepted: nothing overtakes an earlier write, nothing appears twice.
C7_WritesInCallOrder ==
    InCallOrder(chan.wire \o wk.pending \o QueuedRuns(queue))

C7_Witness ==
    /\ Len(chan.wire) >= 2
    /\ chan.wire[1][1] = 1
    /\ chan.wire[2][1] = 3
    /\ wk.dropped = 1

\* C9: the pending buffer never holds more than MAX_PENDING_BYTES; a
\* dequeued Write that would pass the ceiling leaves the buffer as it was,
\* and one that fits is appended whole, also after an earlier drop.
C9_PendingWithinCeiling ==
    /\ [](BLen(wk.pending) <= MAX_PENDING_BYTES)
    /\ [][(wk.pc = "io_drain" /\ queue # <<>> /\ queue' = Tail(queue) /\ queue[1].op = "Write") =>
             IF BLen(wk.pending) + BLen(queue[1].arg) > MAX_PENDING_BYTES
             THEN wk'.pending = wk.pending
             ELSE wk'.pending = BCat(wk.pending, queue[1].arg)]_vars

C9_Witness ==
    /\ wk.dropped > 0
    /\ wk.accepted_after_drop
    /\ BLen(wk.pending) = MAX_PENDING_BYTES

RECURSIVE ConcatAll(_)
ConcatAll(chunks) ==
    IF chunks = <<>> THEN <<>> ELSE BCat(chunks[1], ConcatAll(Tail(chunks)))

\* C10: the payloads of the ssh:data events, concatenated in emission order,
\* are the bytes read from the channel; there is one event, not empty, for
\* each read that returned data.
C10_DataEventsAreTheStream ==
    /\ ConcatAll(chan.data) = chan.inbound
    /\ Len(chan.data) = count.read
    /\ \A i \in 1..Len(chan.data) : chan.data[i] # <<>>

C10_Witness ==
    /\ Len(chan.data) = 3
    /\ BLen(chan.data[1]) = READ_BUF_BYTES
    /\ BLen(chan.data[2]) = 1
    /\ BLen(chan.inbound) = 2 * READ_BUF_BYTES + 1

\* C8 as stated: a send_data call made while the queue holds its full
\* capacity returns 'Output queue full' and changes neither the queue nor
\* the session state.
C8_FullQueueRejects ==
    [][(Len(queue) = QUEUE_CAPACITY /\ count'.send = count.send + 1) =>
          (caller'.res = "Output queue full" /\ queue' = queue /\ state' = state)]_vars

\* C8, amended: a send_data call never leaves more than QUEUE_CAPACITY
\* commands queued; made while the queue holds its full capacity it changes
\* neither the queue nor the session state, and it returns 'Output queue
\* full' if the handle still holds its sender, 'Session closed' if
\* disconnect has taken the sender.
C8_FullQueueFailsFast ==
    /\ [](Len(queue) <= QUEUE_CAPACITY)
    /\ [][(Len(queue) = QUEUE_CAPACITY /\ count'.send = count.send + 1) =>
             /\ queue' = queue
             /\ state' = state
             /\ caller'.res = IF write_tx THEN "Output queue full" ELSE "Session closed"]_vars

C8_Witness ==
    /\ Len(queue) = QUEUE_CAPACITY
    /\ write_tx
    /\ state = "Connected"
    /\ caller.op = "send_data"
    /\ caller.res = "Output queue full"

\* How many times s occurs in a sequence.
CountOf(seq, s) ==
    Cardinality({i \in 1..Len(seq) : seq[i] = s})

\* C11: in an attempt whose host-key check returned NotFound the worker sets
\* WaitingForHostKey exactly once and exactly one ssh:hostkey_request is
\* emitted, both with the check itself and therefore before any call of
\* authenticate; in an attempt whose check returned Match (or that has not
\* checked yet) the worker never sets WaitingForHostKey and nothing is asked.
C11_UnknownKeyPromptsOnce ==
    /\ wk.check = "NotFound" =>
          /\ CountOf(wk.sets, "WaitingForHostKey") = 1
          /\ events["ssh:hostkey_request"] = 1
    /\ wk.check \in {"", "Match"} =>
          /\ CountOf(wk.sets, "WaitingForHostKey") = 0
          /\ events["ssh:hostkey_request"] = 0
          /\ state # "WaitingForHostKey"
    /\ wk.pc \in {"wait_hostkey", "clear_decision", "persist"} => wk.auth_calls = 0
    /\ wk.auth_calls > 0 => wk.check \in {"Match", "NotFound"}

C11_Witness ==
    /\ wk.check = "NotFound"
    /\ wk.auth_calls = 1
    /\ state = "Connected"
    /\ events["ssh:hostkey_request"] = 1

\* C13: when the decision consumed in WaitingForHostKey is Reject, or the wait
\* times out, the attempt fails: authenticate is never called, the worker
\* never sets Connected and installs no sender, the trust store is as it
\* was when it was checked, and the attempt's last act is to set Error.
C13_RejectOrTimeoutAborts ==
    (wk.decision = "Reject" \/ wk.err = "Host key verification timed out") =>
        /\ wk.check = "NotFound"
        /\ wk.pc \in {"clear_decision", "failed", "done"}
        /\ wk.auth_calls = 0
        /\ known_hosts = wk.hosts_at_check
        /\ ~wk.persisted
        /\ ~SetByWorker("Connected")
        /\ ~write_tx
        /\ wk.pc = "done" =>
              /\ wk.sets[Len(wk.sets)] = "Error"
              /\ wk.err \in {"Host key rejected by user", "Host key verification timed out"}
              /\ state = "Error" \/ (state = "Disconnected" /\ count.disconnect > 0)

C13_Witness ==
    /\ wk.decision = "Reject"
    /\ wk.pc = "done"
    /\ state = "Error"
    /\ known_hosts = {}

\* C15: the state that follows WaitingForHostKey is Connected or Error.
C15_WaitingLeadsToConnectedOrError ==
    [][(state = "WaitingForHostKey" /\ state' # state) =>
          (state' \in {"Connected", "Error"})]_vars

\* C16: the worker sets Connected only after host-key verification, then
\* authentication, then channel opening succeeded, in this order, with the
\* key matched or accepted by TrustOnce or TrustAlways and the transport
\* reporting authenticated; an attempt whose transport does not report
\* authenticated fails in authenticate with an Auth error.
C16_ConnectedOnlyAfterAllStages ==
    /\ SetByWorker("Connected") =>
          /\ wk.trail = <<"verify", "auth", "channel">>
          /\ wk.authenticated
          /\ \/ wk.check = "Match"
             \/ wk.check = "NotFound" /\ wk.decision \in {"TrustOnce", "TrustAlways"}
    /\ (wk.auth_calls > 0 /\ ~wk.authenticated) =>
          /\ wk.pc \in {"failed", "done"}
          /\ wk.err \in {"Authentication failed", "Password authentication failed"}
    /\ \A i \in 1..Len(wk.trail) : wk.trail[i] = <<"verify", "auth", "channel">>[i]

C16_Witness ==
    /\ state = "Connected"
    /\ wk.check = "NotFound"
    /\ wk.decision = "TrustAlways"
    /\ wk.trail = <<"verify", "auth", "channel">>

\* C17: an attempt that failed in its connect sequence never starts the I/O
\* loop: no sender and no channel is installed, connected_at stays unset,
\* no ssh:connected and no ssh:data is emitted, and its last act is to set Error.
C17_FailedConnectNeverStartsLoop ==
    wk.err # "" =>
        /\ wk.pc \in {"failed", "done"}
        /\ ~write_tx
        /\ ~rx_alive
        /\ ~connected_at
        /\ events["ssh:connected"] = 0
        /\ chan.data = <<>>
        /\ ~SetByWorker("Connected")
        /\ wk.pc = "done" =>
              /\ wk.sets[Len(wk.sets)] = "Error"
              /\ state = "Error" \/ (state = "Disconnected" /\ count.disconnect > 0)

C17_Witness ==
    /\ wk.err = "Failed to start interactive shell"
    /\ wk.pc = "done"
    /\ state = "Error"

\* C18: a failed connect sequence is surfaced once: when the worker has
\* ended, it has set Error exactly once and exactly one ssh:error was emitted.
C18_FailureSurfacedOnce ==
    wk.pc = "done" =>
        /\ CountOf(wk.sets, "Error") = 1
        /\ events["ssh:error"] = 1

\* An earlier attempt, the i-th, in which the key now presented was unknown
\* and was answered with d.
AnsweredBefore(i, d) ==
    /\ attempts[i].check = "NotFound"
    /\ attempts[i].decision = d
    /\ attempts[i].key = wk.presented

\* The trust-store file was read without error in every attempt after the
\* i-th, this one included.
ReadSince(i) ==
    /\ wk.read_ok
    /\ \A j \in (i + 1)..Len(attempts) : attempts[j].read_ok

OnlyTrustAlwaysAdds ==
    [][(known_hosts' # known_hosts) =>
          /\ wk.pc = "persist"
          /\ wk.decision = "TrustAlways"
          /\ wk.auth_calls = 0
          /\ wk.presented \in known_hosts']_vars

\* An attempt answered with TrustOnce goes on to authenticate and leaves the
\* trust store as it was when it was checked.
TrustOnceKeepsStore ==
    (wk.decision = "TrustOnce" /\ wk.pc # "clear_decision") =>
        /\ wk.trail # <<>>
        /\ wk.trail[1] = "verify"
        /\ wk.err = ""
        /\ ~wk.persisted
        /\ known_hosts = wk.hosts_at_check

\* Nothing was persisted by the attempts after the i-th.
NothingPersistedSince(i) ==
    \A j \in (i + 1)..Len(attempts) : ~attempts[j].persisted

C19_KeyFileGoneOnReturn ==
    (auth_method = "Key" /\ wk.auth_calls > 0
        /\ wk.pc \notin {"auth_key_chmod", "auth_key_userauth", "auth_key_remove", "auth_key_check"}) =>
        key_file = "absent"

\* The identifiers in a sequence.
Range(seq) ==
    {seq[i] : i \in 1..Len(seq)}

MgrDisconnectReturns ==
    caller.mgr = "handle" /\ caller'.mgr = "idle"

\* C21: when SessionManager::disconnect(id) returns Ok the registry has lost
\* the entry for id and nothing else; a handle so disconnected is not in
\* the registry again, under any identifier; and as long as no
\* create_session has returned id again, get_session(id) is None, the
\* listing omits id and a further disconnect(id) fails with the not-found
\* error.
C21_DisconnectRemovesEntry ==
    /\ [][MgrDisconnectReturns =>
             /\ caller'.res = "Ok"
             /\ DOMAIN sessions' = DOMAIN sessions \ {caller.mgr_id}
             /\ GetSession(sessions', caller.mgr_id) = 0
             /\ \A i \in DOMAIN sessions' : sessions'[i] = sessions[i]]_vars
    /\ [](\A i \in DOMAIN sessions : sessions[i] \notin caller.mgr_done)
    /\ [][(caller.mgr = "idle" /\ caller.op = "disconnect" /\ caller.res = "Ok"
              /\ issued' = issued) =>
             /\ caller.mgr_id \notin DOMAIN sessions'
             /\ (caller'.op = "disconnect" /\ caller' # caller /\ caller'.mgr = "idle") =>
                    (caller'.res = "Ssh(Session not found)" \/ caller'.mgr_id # caller.mgr_id)]_vars

C21_Witness ==
    /\ caller.mgr = "idle"
    /\ caller.op = "disconnect"
    /\ caller.res = "Ssh(Session not found)"
    /\ caller.mgr_done = {1}
    /\ caller.mgr_id = 1
    /\ DOMAIN sessions = {2}

\* C22: once SessionManager::disconnect has returned Ok for a session, the
\* worker of that session is not running (it was never started, or it has
\* ended), and it changes the state and emits events no more.
C22_WorkerStoppedOnReturn ==
    /\ [](Newest \in caller.mgr_done => wk.pc \in {"idle", "done"})
    /\ [][(Newest \in caller.mgr_done /\ issued' = issued) =>
             (state' = state /\ events' = events /\ chan'.data = chan.data)]_vars

\* C23: SessionHandle::disconnect can always be called and, once begun,
\* always goes on to its end; its first statement leaves the handle without
\* sender, and leaves the queue as it was when the queue is full or no
\* sender was installed; its end sets the state to Disconnected and
\* returns Ok.
C23_DisconnectNeverBlocks ==
    /\ [](caller.disc = "idle" => ENABLED DisconnectTake)
    /\ [](caller.disc = "set_state" => ENABLED DisconnectSetState)
    /\ [][(count'.disconnect = count.disconnect + 1) =>
             /\ ~write_tx'
             /\ caller'.disc = "set_state"
             /\ (~write_tx \/ Len(queue) = QUEUE_CAPACITY) => queue' = queue]_vars
    /\ [][(caller.disc = "set_state" /\ caller'.disc = "idle" /\ issued' = issued) =>
             (state' = "Disconnected" /\ caller'.res = "Ok"
                /\ events'["ssh:disconnected"] = events["ssh:disconnected"] + 1)]_vars

C23_Witness ==
    /\ Len(queue) = QUEUE_CAPACITY
    /\ \A i \in 1..Len(queue) : queue[i].op = "Write"
    /\ rx_alive
    /\ ~write_tx
    /\ state = "Disconnected"
    /\ caller.op = "disconnect"
    /\ caller.res = "Ok"
    /\ count.disconnect = 2

\* The registry operations that take a session identifier.
RegistryOps ==
    {"connect_session", "send_data", "resize_pty", "set_hostkey_decision", "disconnect"}

\* C24: a registry operation called with an identifier that is not in the
\* registry returns an error of the kind SessionNotFound and changes
\* neither the registry nor any session.
C24_UnknownIdIsSessionNotFound ==
    [][(\E op \in RegistryOps : SessionNotFound(op)) =>
          /\ caller'.res = "SessionNotFound"
          /\ UNCHANGED <<sessions, state, write_tx, connected_at, hostkey_decision,
                         queue, rx_alive, wk, chan, events>>]_vars

\* How many Resize commands a queue holds.
ResizesIn(q) ==
    Cardinality({i \in 1..Len(q) : q[i].op = "Resize"})

\* C25: a resize_pty call on a handle without sender returns Ok and changes
\* nothing: not the queue, not the state, not the worker, not the terminal
\* size.  The size is not applied later either: the terminal size changes
\* only when the worker dequeues a Resize command, and a Resize command is
\* queued only by a call made while the handle has a sender.
C25_EarlyResizeHasNoEffect ==
    /\ [][(count'.resize = count.resize + 1 /\ ~write_tx) =>
             /\ caller'.res = "Ok"
             /\ UNCHANGED <<state, write_tx, connected_at, hostkey_decision, known_hosts,
                            queue, rx_alive, wk, chan, events>>]_vars
    /\ [][(chan'.pty # chan.pty) =>
             /\ wk.pc = "io_drain"
             /\ queue # <<>>
             /\ Head(queue).op = "Resize"
             /\ chan'.pty = Head(queue).arg]_vars
    /\ [][(ResizesIn(queue') > ResizesIn(queue)) =>
             (count'.resize = count.resize + 1 /\ write_tx)]_vars
    /\ [](state = "Created" => ~write_tx)

C25_Witness ==
    /\ state = "WaitingForHostKey"
    /\ wk.pc = "wait_hostkey"
    /\ ~write_tx
    /\ caller.op = "resize_pty"
    /\ caller.res = "Ok"
    /\ count.resize = 1
    /\ queue = <<>>
    /\ chan.pty = <<80, 24>>

\* C26: the outbound flush stage always terminates: whenever the worker
\* enters it, the worker reaches the end-of-iteration check.
C26_FlushTerminates ==
    (wk.pc = "io_write") ~> (wk.pc = "io_eofcheck")

\* The positions of the worker inside the I/O loop.
InLoop ==
    {"io_keepalive", "io_drain", "io_errcheck", "io_read", "io_write", "io_eofcheck"}

\* C27: the worker leaves the I/O loop only towards its cleanup, which sets
\* the state to Disconnected and then emits ssh:closed, once; no ssh:closed
\* is emitted otherwise, and after the cleanup the state stays Disconnected.
\* When the channel reports EOF at the end-of-iteration check the loop is
\* left there and then.
C27_LoopExitClosesOnce ==
    /\ [][(wk.pc \in InLoop /\ wk'.pc \notin InLoop /\ issued' = issued) =>
             wk'.pc = "cleanup"]_vars
    /\ [][(wk.pc = "io_eofcheck" /\ chan.eof /\ wk' # wk) => wk'.pc = "cleanup"]_vars
    /\ [][(wk.pc = "cleanup" /\ wk' # wk) =>
             (state' = "Disconnected" /\ wk'.pc = "closed")]_vars
    /\ [](wk.pc \in {"closed", "done"} /\ SetByWorker("Connected") =>
             /\ state = "Disconnected"
             /\ wk.sets[Len(wk.sets)] = "Disconnected")
    /\ [](events["ssh:closed"] =
             IF wk.pc = "done" /\ SetByWorker("Connected") THEN 1 ELSE 0)

C27_Witness ==
    /\ wk.pc = "done"
    /\ chan.eof
    /\ events["ssh:closed"] = 1
    /\ state = "Disconnected"
    /\ count.disconnect = 0

\* Some identity of the agent was accepted by the server.
SomeAccepted(a) ==
    a.reach = "ok" /\ \E i \in 1..Len(a.ids) : a.ids[i]

\* The attempt got through authenticate.
AuthSucceeded ==
    wk.auth_calls > 0 /\ Len(wk.trail) >= 2 /\ wk.trail[2] = "auth"

\* The Auth errors of the Agent strategy and of the authenticated() check.
AgentErrors ==
    {"SSH agent not available. Make sure ssh-agent is running.",
     "Failed to connect to SSH agent. Is it running?",
     "Failed to list SSH agent identities",
     "No identities found in SSH agent. Add keys with ssh-add.",
     "SSH agent authentication failed. No matching key accepted.",
     "Authentication failed"}

\* Identities are tried in order up to the first accepted one; an attempt
\* that does not get through authenticate fails with an Auth error (the
\* no-identities one for an empty agent) and its last act is to set Error.
AgentOrderAndFailure ==
    wk.auth_calls > 0 =>
        /\ wk.agent.reach = "ok" =>
              /\ \A i \in 1..(wk.agent.tried - 1) : ~wk.agent.ids[i]
              /\ IF SomeAccepted(wk.agent) THEN wk.agent.ids[wk.agent.tried]
                 ELSE wk.agent.tried = Len(wk.agent.ids)
        /\ wk.agent.reach # "ok" => wk.agent.tried = 0
        /\ ~AuthSucceeded =>
              /\ wk.pc \in {"failed", "done"}
              /\ wk.err \in AgentErrors
              /\ (wk.agent.reach = "ok" /\ wk.agent.ids = <<>>) =>
                     wk.err = "No identities found in SSH agent. Add keys with ssh-add."
              /\ ~SetByWorker("Connected")
              /\ wk.pc = "done" =>
                    /\ wk.sets[Len(wk.sets)] = "Error"
                    /\ state = "Error" \/ (state = "Disconnected" /\ count.disconnect > 0)

\* C28 as stated: with the Agent method authentication succeeds if and only
\* if some agent identity is accepted; identities are tried in order up to
\* the first success; otherwise connect fails with an Auth error and the
\* session ends in Error.
C28_AgentSucceedsIffAccepted ==
    /\ wk.auth_calls > 0 => (AuthSucceeded <=> SomeAccepted(wk.agent))
    /\ AgentOrderAndFailure

\* C28, amended: authentication succeeds if and only if some agent identity
\* is accepted and the transport then reports authenticated; the rest as
\* stated.
C28_AgentSucceedsIffAcceptedAndAuthenticated ==
    /\ wk.auth_calls > 0 =>
          (AuthSucceeded <=> (SomeAccepted(wk.agent) /\ wk.authenticated))
    /\ (wk.auth_calls > 0 /\ SomeAccepted(wk.agent) /\ ~wk.authenticated) =>
          wk.err = "Authentication failed"
    /\ AgentOrderAndFailure

C28_Witness ==
    /\ wk.agent.reach = "ok"
    /\ wk.agent.ids = <<FALSE, TRUE, TRUE>>
    /\ wk.agent.tried = 2
    /\ AuthSucceeded
    /\ state = "Connected"

\* The requests of the fallback ladder, in order; the second one runs the
\* program named by SHELL, /bin/sh if SHELL is not set.
LadderOrder(second) ==
    << [req |-> "shell", prog |-> ""],
       [req |-> "exec", prog |-> second],
       [req |-> "exec", prog |-> "/bin/sh"],
       [req |-> "exec", prog |-> "bash"],
       [req |-> "exec", prog |-> "sh"] >>

\* C29: the attempts of the channel opener are the first ones of the ladder
\* shell, $SHELL -l, /bin/sh -l, bash -l, sh -l, in this order; every
\* attempt but the last one failed; each attempt that got a channel got a
\* new one; when an attempt succeeds it is the last one and its channel, the
\* newest, is returned; when all five have failed the opener returns its
\* error, the worker never sets Connected and its last act is to set Error.
C29_FallbackLadderInOrder ==
    LET l == wk.ladder
        n == Len(l.tries)
    IN  n > 0 =>
          /\ n <= 5
          /\ \E second \in {"/bin/sh", "/usr/bin/zsh"} :
                \A i \in 1..n : l.tries[i].cmd = LadderOrder(second)[i]
          /\ \A i \in 1..(n - 1) : l.tries[i].result # "ok"
          /\ l.opened = Cardinality({i \in 1..n : l.tries[i].result # "open_failed"})
          /\ IF l.tries[n].result = "ok"
             THEN /\ l.channel = l.opened
                  /\ wk.err = ""
                  /\ wk.trail = <<"verify", "auth", "channel">>
             ELSE /\ n = 5
                  /\ l.channel = 0
                  /\ wk.err = "Failed to start interactive shell"
                  /\ wk.pc \in {"failed", "done"}
                  /\ ~SetByWorker("Connected")
                  /\ ~write_tx
                  /\ wk.pc = "done" =>
                        /\ wk.sets[Len(wk.sets)] = "Error"
                        /\ state = "Error" \/ (state = "Disconnected" /\ count.disconnect > 0)

C29_Witness ==
    /\ Len(wk.ladder.tries) = 4
    /\ wk.ladder.tries[1].result = "start_failed"
    /\ wk.ladder.tries[2].result = "open_failed"
    /\ wk.ladder.tries[3].result = "start_failed"
    /\ wk.ladder.tries[4] = [cmd |-> [req |-> "exec", prog |-> "bash"], result |-> "ok"]
    /\ wk.ladder.channel = 3
    /\ state = "Connected"

\* C30: a snapshot whose state is Connected has connected_at set;
\* connected_at is written only by the worker, once in its attempt (it was
\* unset before), after verification, authentication and channel opening
\* succeeded, and it is never unset.
C30_ConnectedSnapshotHasTimestamp ==
    /\ [](caller.snap.state = "Connected" => caller.snap.connected_at)
    /\ [](state = "Connected" => connected_at)
    /\ [][(wk.pc = "set_connected_at" /\ wk' # wk) => (~connected_at /\ connected_at')]_vars
    /\ [][(connected_at' # connected_at /\ issued' = issued) =>
             /\ wk.pc = "set_connected_at"
             /\ connected_at'
             /\ wk.trail = <<"verify", "auth", "channel">>
             /\ wk.authenticated]_vars

C30_Witness ==
    /\ caller.snap = [state |-> "Connected", connected_at |-> TRUE]
    /\ caller.info = "Disconnected"
    /\ state = "Disconnected"
    /\ connected_at

(***************************************************************************)
(* C31: sanitize_error_message                                             *)
(***************************************************************************)
\* The number of characters of a text.
RECURSIVE Chars(_)
Chars(t) ==
    IF t = <<>> THEN 0 ELSE t[1][2] + Chars(Tail(t))

\* The first k characters of a text.
RECURSIVE CharsTake(_, _)
CharsTake(t, k) ==
    IF k = 0 \/ t = <<>> THEN <<>>
    ELSE IF k >= t[1][2] THEN <<t[1]>> \o CharsTake(Tail(t), k - t[1][2])
    ELSE <<<<t[1][1], k>>>>

\* C31: sanitize_error_message returns a message of at most 200 characters
\* unchanged, and for a longer message its first 200 characters followed by
\* "..."; the result is never longer than 203 characters.
C31_SanitizeKeeps200Characters ==
    wk.surfaced.kind # "none" =>
        LET msg == wk.surfaced.of
        IN  /\ wk.surfaced.kind = "ok"
            /\ wk.surfaced.text = IF Chars(msg) <= 200 THEN msg
                                  ELSE Norm(CharsTake(msg, 200) \o <<<<1, 3>>>>)
            /\ Chars(wk.surfaced.text) <= 203

(***************************************************************************)
(* C32: compute_sha256_fingerprint                                         *)
(***************************************************************************)
\* The bytes a base64 text without padding stands for.
RECURSIVE Base64Decode(_)
Base64Decode(text) ==
    CASE Len(text) <= 1 -> <<>>
      [] Len(text) = 2 -> <<(text[1] * 64 + text[2]) \div 16>>
      [] Len(text) = 3 ->
             LET n == text[1] * 4096 + text[2] * 64 + text[3]
             IN  <<n \div 1024, (n \div 4) % 256>>
      [] Len(text) >= 4 ->
             LET n == text[1] * 262144 + text[2] * 4096 + text[3] * 64 + text[4]
             IN  <<n \div 65536, (n \div 256) % 256, n % 256>>
                 \o Base64Decode(SubSeq(text, 5, Len(text)))

\* The fingerprint is "SHA256:" and the unpadded base64 text of the digest
\* of the key.
IsFingerprintOf(fp, key) ==
    /\ fp.scheme = "SHA256:"
    /\ \A i \in 1..Len(fp.b64) : fp.b64[i] \in 0..63
    /\ Len(fp.b64) = 43
    /\ Base64Decode(fp.b64) = Sha256(KeyBytes(key))

\* C32: the fingerprint in the HostKeyInfo prompt is "SHA256:" followed by
\* the base64 encoding, without any '=' padding, of the SHA-256 digest of the
\* raw bytes of the key the server presented; it is a function of those
\* bytes alone: whatever the policy, the trust store and the calls made.
C32_PromptFingerprintOfPresentedKey ==
    events["ssh:hostkey_request"] > 0 =>
        /\ wk.presented \in HostKeys
        /\ IsFingerprintOf(wk.prompt, wk.presented)

\* A prompt for keyB was emitted under the Accept policy after a decision
\* had already been stored.
C32_Witness ==
    /\ events["ssh:hostkey_request"] = 1
    /\ wk.presented = "keyB"
    /\ policy = "Accept"
    /\ count.decision > 0
    /\ IsFingerprintOf(wk.prompt, "keyB")
    /\ wk.prompt # compute_sha256_fingerprint(KeyBytes("keyA"))

(***************************************************************************)
(* C33: when a host-key decision counts                                    *)
(***************************************************************************)
\* C33: a host-key decision takes effect only if it was supplied while the
\* handle was in WaitingForHostKey: whenever the verifier takes a decision
\* out of the slot, that decision was stored during the wait, after the
\* prompt was emitted.
C33_DecisionTakenWasMadeWhileWaiting ==
    [][ (wk.pc = "wait_hostkey" /\ wk'.pc = "clear_decision") => caller.decided_waiting ]_vars

(***************************************************************************)
(* C34: one worker per handle                                              *)
(***************************************************************************)
\* C34: each session handle has at most one worker: connect_session on a
\* handle whose connection was already started does not start a second
\* connect sequence, so no second thread ever drives the handle's state.
C34_OneWorkerPerHandle ==
    wk.second = "none"

(***************************************************************************)
(* C35: known_hosts_policy and the outcome of verification                 *)
(***************************************************************************)
\* What the step of verify_host_key that checks the key must do, given the
\* check result alone.
VerifyStepFollows(check) ==
    CASE check = "Match" ->
             /\ wk'.pc = "auth"
             /\ UNCHANGED <<state, events>>
      [] check = "NotFound" ->
             /\ wk'.pc = "wait_hostkey"
             /\ state' = "WaitingForHostKey"
             /\ events' = Emit(events, "ssh:hostkey_request")
      [] check \in {"Mismatch", "Failure"} ->
             /\ wk'.pc = "failed"
             /\ state' = state
             /\ events'["ssh:hostkey_request"] = events["ssh:hostkey_request"]
      [] OTHER -> FALSE

\* C35: the outcome of host-key verification does not depend on
\* known_hosts_policy.  Under every policy value each step of the
\* verification is decided by the trust store, the presented key, the
\* library's results and the human decision alone: the check result is the
\* one the store gives for the key; a match goes on to authentication, an
\* unknown key sets WaitingForHostKey and emits one prompt, a changed key
\* fails; the wait ends with the stored decision or the timeout; TrustOnce
\* and TrustAlways go on, Reject fails.  Two attempts that differ only in
\* the policy therefore take the same steps.
C35_VerificationIgnoresPolicy ==
    [][ /\ (wk.pc = "verify" /\ wk'.pc # "verify")
            => IF wk'.err \in {"no_host_key", "known_hosts_failed"}
               THEN /\ wk'.pc = "failed"
                    /\ UNCHANGED <<state, events>>
               ELSE /\ wk'.check \in
                           {"Failure",
                            CheckPort(IF wk'.read_ok THEN known_hosts ELSE {}, wk.key)}
                    /\ VerifyStepFollows(wk'.check)
        /\ (wk.pc = "wait_hostkey" /\ wk'.pc # "wait_hostkey")
            => /\ IF hostkey_decision # "None"
                  THEN wk'.pc = "clear_decision" /\ wk'.decision = hostkey_decision
                  ELSE wk'.pc = "failed" /\ wk'.err = "Host key verification timed out"
               /\ UNCHANGED <<state, events>>
        /\ (wk.pc = "clear_decision" /\ wk'.pc # "clear_decision")
            => /\ wk'.pc = CASE wk.decision = "TrustOnce"   -> "auth"
                              [] wk.decision = "TrustAlways" -> "persist"
                              [] wk.decision = "Reject"      -> "failed"
               /\ UNCHANGED <<state, events>>
      ]_vars

\* Under the Strict policy an unknown key was prompted for, trusted once,
\* and the session is connected; nothing was written to the trust store.
C35_Witness ==
    /\ policy = "Strict"
    /\ wk.check = "NotFound"
    /\ wk.decision = "TrustOnce"
    /\ events["ssh:hostkey_request"] = 1
    /\ state = "Connected"
    /\ known_hosts = {}

(***************************************************************************)
(* C36: the order of the stages in one iteration                           *)
(***************************************************************************)
\* The stage that may follow each stage in the documented order: keepalive
\* pacing, command drain, inbound drain, outbound flush, then the
\* termination checks (the five-error threshold and channel EOF), which
\* end the loop or start the next iteration.
DocumentedOrder ==
    { <<"io_keepalive", "io_drain">>,
      <<"io_drain", "io_read">>,
      <<"io_read", "io_write">>,
      <<"io_write", "io_errcheck">>, <<"io_write", "io_eofcheck">>,
      <<"io_errcheck", "io_eofcheck">>, <<"io_eofcheck", "io_errcheck">>,
      <<"io_errcheck", "io_keepalive">>, <<"io_eofcheck", "io_keepalive">>,
      <<"io_errcheck", "cleanup">>, <<"io_eofcheck", "cleanup">> }

\* C36: every iteration of the I/O loop performs its stages in the
\* documented order - keepalive pacing, command drain, inbound drain,
\* outbound flush, and only then the termination checks (channel EOF and the
\* five-error threshold): the worker moves from a stage only to the stage
\* the documented order puts next.
C36_StagesInDocumentedOrder ==
    [][ (wk.pc \in InLoop /\ wk'.pc # wk.pc) => <<wk.pc, wk'.pc>> \in DocumentedOrder ]_vars

(***************************************************************************)
(* C37: a read of zero bytes                                               *)
(***************************************************************************)
\* C37: a successful zero-byte read is not treated as end of stream: it
\* ends only the current inbound drain (the worker goes on to the outbound
\* flush), with no state change, no event and no error counted; and the
\* I/O loop is left, towards its cleanup, only when the channel reports
\* EOF, a Close command was received, or the five-error threshold is
\* reached.
C37_ZeroReadEndsOnlyTheDrain ==
    [][ /\ IoRead("zero", 0)
            => /\ wk' = [wk EXCEPT !.pc = "io_write"]
               /\ UNCHANGED <<state, events, chan, count, queue, rx_alive, write_tx>>
        /\ (wk.pc \in InLoop /\ wk'.pc \notin InLoop)
            => /\ wk'.pc = "cleanup"
               /\ \/ chan.eof
                  \/ wk.close_seen
                  \/ wk.consecutive_errors >= MAX_CONSECUTIVE_ERRORS
      ]_vars

\* Data was read, the drain ended by a zero-byte read, and the loop has
\* started another iteration: the session is still connected, nothing was
\* reported and the channel is open.
C37_Witness ==
    /\ wk.pc = "io_keepalive"
    /\ count.read >= 1
    /\ count.read_err = 0
    /\ wk.read_error_count = 0
    /\ state = "Connected"
    /\ ~chan.eof
    /\ ~wk.close_seen
    /\ events["ssh:error"] = 0
    /\ events["ssh:closed"] = 0

(***************************************************************************)
(* C38: whole payloads on the wire                                         *)
(***************************************************************************)
\* The lengths of the payloads that send_data is given in SpecOutbound.
SentLengths ==
    {1, MAX_PENDING_BYTES - 1}

\* C38: the byte stream written to the channel is always the in-order
\* concatenation of complete accepted Write payloads: every payload on the
\* wire starts at its first byte, and a payload that is followed by bytes
\* of a later payload is there up to its last byte - also after a
\* non-recoverable write error has discarded the pending buffer.
C38_WireIsWholePayloads ==
    \A i \in 1..Len(chan.wire) :
        /\ chan.wire[i][2] = 0
        /\ i < Len(chan.wire) =>
               /\ chan.wire[i][1] < chan.wire[i + 1][1]
               /\ chan.wire[i][3] \in SentLengths

(***************************************************************************)
(* C40: the permissions of the temporary key file                          *)
(***************************************************************************)
\* C40: the temporary private-key file never holds key material while its
\* permissions are wider than owner-only: the file is absent, or it has
\* been made private before any key byte was written to it.
C40_KeyFileNeverOpen ==
    key_file \in {"absent", "private"}

(***************************************************************************)
(* C39: the error of a rejected credential                                 *)
(***************************************************************************)
\* The server or the library turned the password down.
PasswordRejected ==
    /\ auth_method = "Password"
    /\ wk.auth_calls > 0
    /\ wk.cred.password # "none"
    /\ wk.cred.detail # "ok"

\* The server or the library turned the private key down.
KeyRejected ==
    /\ auth_method = "Key"
    /\ ~wk.auth_result.ok
    /\ wk.pc \in {"failed", "done"}

\* C39: the error of a failed password authentication is the fixed Auth
\* message 'Password authentication failed', whatever password was
\* submitted and whatever the library's error says; and the Auth error for
\* a rejected credential, password or key, is one of the fixed messages:
\* it is neither the credential nor the library's error text.
C39_RejectedCredentialGetsFixedMessage ==
    /\ PasswordRejected => wk.err = "Password authentication failed"
    /\ KeyRejected => wk.err \in {"Invalid passphrase or key format",
                                   "Private key not accepted by server",
                                   "Private key authentication failed"}
    /\ (PasswordRejected \/ KeyRejected) =>
           /\ wk.err # wk.cred.password
           /\ wk.err # wk.cred.detail

\* The password 'correct horse' was turned down with the library's second
\* error text; the attempt has ended in Error with the fixed message.
C39_Witness ==
    /\ PasswordRejected
    /\ wk.cred = [password |-> "correct horse",
                  detail |-> "Unable to send userauth-password request"]
    /\ wk.err = "Password authentication failed"
    /\ wk.pc = "done"
    /\ state = "Error"
    /\ events["ssh:error"] = 1

====
